---- MODULE Spec2Model ----
(***************************************************************************)
(* A model of claude-supermemory's local-first storage and git-mediated    *)
(* synchronisation: the Local Store (SqliteManager), the Credential        *)
(* Provider (GitHubAuth), the Remote Sync Engine (GitHubSync) and the      *)
(* Storage Facade (StorageClient).                                         *)
(***************************************************************************)
EXTENDS Integers, Sequences, FiniteSets, TLC

VARIABLES
    now,      \* Date.now(), in clock ticks
    db,       \* per device: the SQLite database (memories rows + memories_fts index)
    co,       \* per device: the checkout directory ~/.claude-memory/repo
    remote,   \* the hosted repository <owner>/claude-memory-storage
    eng,      \* per device: StorageClient.sync (the lazily built GitHubSync)
    auth,     \* per device: the three credential sources and GitHubAuth.ghAvailable
    call,     \* per device: the Facade sync call in flight (position and locals)
    res,      \* per device: what the last Facade call returned or threw
    faults,   \* environment failures (network, API, file system) still to come
    ops       \* Local Store operations the callers have made so far

vars == <<now, db, co, remote, eng, auth, call, res, faults, ops>>

----------------------------------------------------------------------------
(* Bounds of the model *)

MaxClock == 1
MaxFaults == 1
MaxStoreOps == 2

(* One calendar day, in clock ticks (86400000 ms of Date.now()) *)
TicksPerDay == 1

Devices == {"devA", "devB"}
Ids == {"m1", "m2"}
Tags == {"tagA", "tagB"}

(* content is a text; a text is modelled as its sequence of words *)
Contents == {<<"alpha">>, <<"beta">>}

(* JavaScript undefined, where a text is expected *)
Undefined == <<"undefined">>

(* SQL NULL in an INTEGER column *)
NULL == -1

----------------------------------------------------------------------------
(* JavaScript values held in metadata, and JSON.stringify / JSON.parse on   *)
(* them.  A key/value document is a set of <<key, value>> pairs.           *)

JSObject(doc) == [type |-> "object", doc |-> doc, text |-> ""]
JSString(s) == [type |-> "string", doc |-> {}, text |-> s]
JSNull == [type |-> "null", doc |-> {}, text |-> ""]

EmptyDoc == JSObject({})
ManualDoc == JSObject({<<"type", "manual">>})
MetaDocs == {EmptyDoc, ManualDoc}
JSValues == MetaDocs \cup {JSNull}

JSON_stringify(v) ==
    CASE v = EmptyDoc -> "{}"
      [] v = ManualDoc -> "{\"type\":\"manual\"}"
      [] v = JSNull -> "null"

JSON_parse(text) == CHOOSE v \in JSValues : JSON_stringify(v) = text

----------------------------------------------------------------------------
(* Local Store: SqliteManager *)

(* the words the fts5 tokenizer yields for a text and for a container tag *)
Words(content) == {content[i] : i \in 1..Len(content)}
TagWords(tag) == {tag}

FtsEntries(rowid, content, tag) ==
    {<<rowid, "content", w>> : w \in Words(content)}
        \cup {<<rowid, "container_tag", w>> : w \in TagWords(tag)}

(* trigger memories_ai *)
memories_ai(fts, new) == fts \cup FtsEntries(new.rowid, new.content, new.container_tag)

(* trigger memories_ad: memories_fts is an external-content table, and the *)
(* plain DELETE reads the row's text back from memories, where the row is  *)
(* already gone: no index entry is removed.                                *)
memories_ad(fts, old) == fts

(* trigger memories_au: the plain UPDATE removes the entries of the text   *)
(* it reads back from memories (already the new text) and adds the new     *)
(* text's entries: the old text's entries stay.                            *)
memories_au(fts, new) ==
    (fts \ FtsEntries(new.rowid, new.content, new.container_tag))
        \cup FtsEntries(new.rowid, new.content, new.container_tag)

(* the tables memories and profiles, and the index memories_fts *)
EmptyStore == [rows |-> <<>>, fts |-> {}, profiles |-> {}]

ExistingIds(store) == DOMAIN store.rows

(* rowid of an INTEGER-less primary key table: one more than the largest *)
NextRowid(store) ==
    IF ExistingIds(store) = {} THEN 1
    ELSE 1 + (CHOOSE r \in {store.rows[i].rowid : i \in ExistingIds(store)} :
                 \A i \in ExistingIds(store) : store.rows[i].rowid <= r)

(* addMemory on an id that is absent (id TEXT PRIMARY KEY rejects the rest) *)
Sqlite_addMemory(store, id, content, containerTag, metadata, t) ==
    LET new == [rowid |-> NextRowid(store),
                id |-> id,
                content |-> content,
                container_tag |-> containerTag,
                metadata |-> JSON_stringify(metadata),
                created_at |-> t,
                updated_at |-> t,
                synced_at |-> NULL,
                sync_status |-> "pending"]
    IN [rows |-> store.rows @@ (id :> new),
        fts |-> memories_ai(store.fts, new),
        profiles |-> store.profiles]

(* INSERT OR REPLACE in the place of INSERT *)
Sqlite_canAdd_OrReplace(store, id) == TRUE

(* id TEXT PRIMARY KEY: the INSERT of an id the table holds throws *)
Sqlite_canAdd(store, id) == id \notin ExistingIds(store)

(* stmt.run binds numbers, strings, buffers and null; undefined throws *)
Sqlite_bindable(value) == value # Undefined

(* getMemory: the row with its metadata parsed, or nothing *)
Sqlite_getMemory(store, id) ==
    IF id \in ExistingIds(store)
    THEN {[store.rows[id] EXCEPT !.metadata = JSON_parse(@)]}
    ELSE {}

(* updateMemory; metadata = JSNull stands for the parameter left at null *)
Sqlite_updateMemory_NoReset(store, id, content, metadata, t) ==
    IF id \notin ExistingIds(store) THEN store
    ELSE LET old == store.rows[id]
             new == [old EXCEPT !.content = content,
                                !.updated_at = t,
                                !.metadata = IF metadata # JSNull
                                             THEN JSON_stringify(metadata) ELSE @]
         IN [rows |-> [store.rows EXCEPT ![id] = new],
             fts |-> memories_au(store.fts, new),
             profiles |-> store.profiles]

Sqlite_updateMemory(store, id, content, metadata, t) ==
    IF id \notin ExistingIds(store) THEN store
    ELSE LET old == store.rows[id]
             new == [old EXCEPT !.content = content,
                                !.updated_at = t,
                                !.sync_status = "pending",
                                !.metadata = IF metadata # JSNull
                                             THEN JSON_stringify(metadata) ELSE @]
         IN [rows |-> [store.rows EXCEPT ![id] = new],
             fts |-> memories_au(store.fts, new),
             profiles |-> store.profiles]

(* the DELETE without its WHERE clause *)
Sqlite_deleteMemory_All(store, id) ==
    IF id \notin ExistingIds(store) THEN store
    ELSE [rows |-> <<>>, fts |-> store.fts, profiles |-> store.profiles]

Sqlite_deleteMemory(store, id) ==
    IF id \notin ExistingIds(store) THEN store
    ELSE [rows |-> [i \in ExistingIds(store) \ {id} |-> store.rows[i]],
          fts |-> memories_ad(store.fts, store.rows[id]),
          profiles |-> store.profiles]

(* getPendingSync: the pending rows, metadata parsed *)
Sqlite_getPendingSync(store) ==
    {[store.rows[i] EXCEPT !.metadata = JSON_parse(@)] :
        i \in {j \in ExistingIds(store) : store.rows[j].sync_status = "pending"}}

(* searchMemories without a containerTag (null, or any falsy value) *)
NoTag == ""

(* the rows of memories_fts JOIN memories that MATCH the query: an index   *)
(* entry of the word in either column, under the rowid of a record that    *)
(* exists, and the record's container_tag when one is asked for            *)
Sqlite_searchMatches(store, query, containerTag) ==
    {i \in ExistingIds(store) :
        /\ \E e \in store.fts : e[1] = store.rows[i].rowid /\ e[3] = query
        /\ containerTag # NoTag => store.rows[i].container_tag = containerTag}

(* searchMemories: the first `limit` of the matches in the order of rank,  *)
(* metadata parsed.  The rank (bm25) is not computed: whichever `limit` of *)
(* the matches may come first.                                             *)
Sqlite_searchMemories(store, query, containerTag, limit) ==
    LET matches == Sqlite_searchMatches(store, query, containerTag)
        n == IF Cardinality(matches) < limit THEN Cardinality(matches) ELSE limit
    IN {{[store.rows[i] EXCEPT !.metadata = JSON_parse(@)] : i \in first} :
           first \in {S \in SUBSET matches : Cardinality(S) = n}}

RECURSIVE FtsAfterUpdates(_, _, _)
FtsAfterUpdates(fts, rows, ids) ==
    IF ids = {} THEN fts
    ELSE LET i == CHOOSE x \in ids : TRUE
         IN FtsAfterUpdates(memories_au(fts, rows[i]), rows, ids \ {i})

Sqlite_markSynced_NoStamp(store, ids, t) ==
    LET hit == ids \cap ExistingIds(store)
        rows2 == [i \in ExistingIds(store) |->
                    IF i \in hit
                    THEN [store.rows[i] EXCEPT !.sync_status = "synced"]
                    ELSE store.rows[i]]
    IN [rows |-> rows2, fts |-> FtsAfterUpdates(store.fts, rows2, hit),
        profiles |-> store.profiles]

(* the UPDATE without its WHERE clause *)
Sqlite_markSynced_All(store, ids, t) ==
    LET rows2 == [i \in ExistingIds(store) |->
                    [store.rows[i] EXCEPT !.sync_status = "synced", !.synced_at = t]]
    IN [rows |-> rows2, fts |-> FtsAfterUpdates(store.fts, rows2, ExistingIds(store)),
        profiles |-> store.profiles]

(* markSynced: one UPDATE ... WHERE id IN (ids), stamped with Date.now();  *)
(* ids the table does not hold match no row                                *)
Sqlite_markSynced(store, ids, t) ==
    LET hit == ids \cap ExistingIds(store)
        rows2 == [i \in ExistingIds(store) |->
                    IF i \in hit
                    THEN [store.rows[i] EXCEPT !.sync_status = "synced", !.synced_at = t]
                    ELSE store.rows[i]]
    IN [rows |-> rows2, fts |-> FtsAfterUpdates(store.fts, rows2, hit),
        profiles |-> store.profiles]

(* addProfileFact: INSERT OR REPLACE INTO profiles *)
Sqlite_addProfileFact(store, id, containerTag, fact, type, t) ==
    [store EXCEPT !.profiles =
        {p \in @ : p.id # id}
            \cup {[id |-> id, container_tag |-> containerTag, fact |-> fact,
                   type |-> type, created_at |-> t]}]

(* deleteProfileFact *)
Sqlite_deleteProfileFact(store, id) ==
    [store EXCEPT !.profiles = {p \in @ : p.id # id}]

----------------------------------------------------------------------------
(* Credential Provider: GitHubAuth.  A credential source that holds        *)
(* nothing is the empty string (an unset environment variable, a helper    *)
(* whose token command fails, no token file).                              *)

NoToken == ""
EnvToken == "tok_env"
GhToken == "tok_gh"
FileToken == "tok_file"
(* the access_token the authorization server issues to the device flow *)
DeviceToken == "tok_device"

(* the token file consulted before the helper *)
GitHubAuth_getToken_FileFirst(a) ==
    IF a.env # NoToken THEN [threw |-> FALSE, token |-> a.env]
    ELSE IF a.file # NoToken THEN [threw |-> FALSE, token |-> a.file]
    ELSE IF a.ghAvailable /\ a.gh # NoToken THEN [threw |-> FALSE, token |-> a.gh]
    ELSE [threw |-> TRUE, token |-> NoToken]

GitHubAuth_getToken(a) ==
    IF a.env # NoToken THEN [threw |-> FALSE, token |-> a.env]
    ELSE IF a.ghAvailable /\ a.gh # NoToken THEN [threw |-> FALSE, token |-> a.gh]
    ELSE IF a.file # NoToken THEN [threw |-> FALSE, token |-> a.file]
    ELSE [threw |-> TRUE, token |-> NoToken]

GitHubAuth_isAuthenticated_Always(a) == TRUE

(* isAuthenticated without the helper's flag *)
GitHubAuth_isAuthenticated_NoHelper(a) == a.env # NoToken \/ a.file # NoToken

GitHubAuth_isAuthenticated(a) ==
    a.ghAvailable \/ a.env # NoToken \/ a.file # NoToken

(* saveToken: the token file is written as {"token": token}; getToken      *)
(* reads the token member of the parsed file back                          *)
GitHubAuth_saveToken(a, token) == [a EXCEPT !.file = token]

(* the token file written whatever pollForToken came to *)
GitHubAuth_startDeviceFlow_SaveAlways(a, result) ==
    GitHubAuth_saveToken(a, IF result.kind = "returned" THEN result.token ELSE DeviceToken)

(* startDeviceFlow lines 228-229: saveToken is reached only when the await *)
(* of pollForToken yielded a token                                         *)
GitHubAuth_startDeviceFlow(a, result) ==
    IF result.kind = "returned" THEN GitHubAuth_saveToken(a, result.token) ELSE a

----------------------------------------------------------------------------
(* Remote Sync Engine: GitHubSync.  A file of the checkout is its path     *)
(* below memories/ and its JSON document; a tree is a set of files with    *)
(* one file per path.                                                      *)

(* the local calendar date of a timestamp: <YYYY-MM>/<DD> *)
Day(t) == t \div TicksPerDay

WriteFile(tree, f) == {g \in tree : g.path # f.path} \cup {f}

RECURSIVE WriteFiles(_, _)
WriteFiles(tree, fs) ==
    IF fs = {} THEN tree
    ELSE LET f == CHOOSE x \in fs : TRUE
         IN WriteFiles(WriteFile(tree, f), fs \ {f})

Paths(tree) == {f.path : f \in tree}

AbsentCheckout ==
    [dir |-> "absent", wt |-> {}, idx |-> {}, head |-> {}, base |-> {},
     ahead |-> FALSE, behind |-> FALSE]

NoRemote == [exists |-> FALSE, files |-> {}]

(* the engine of a Facade: whether this.sync is set, how many GitHubSync    *)
(* objects were constructed for it, whether the engine knows the owner     *)
NewEngine == [constructed |-> FALSE, built |-> 0, repoOwner |-> FALSE]

(* a new GitHubSync on every call *)
StorageClient_initSync_Always(e) ==
    [e EXCEPT !.constructed = TRUE, !.built = @ + 1, !.repoOwner = FALSE]

(* initSync: this.sync is set once *)
StorageClient_initSync(e) ==
    IF ~e.constructed
    THEN [e EXCEPT !.constructed = TRUE, !.built = @ + 1]
    ELSE e

(* A *.json file of the checkout: its path, what its text is to JSON.parse *)
(* ("object", "null", or "unparseable"), and the fields of the object.     *)
(* A field the object lacks reads as undefined.                            *)
NoBody ==
    [id |-> "", content |-> Undefined, containerTag |-> "", metadata |-> JSNull,
     createdAt |-> 0, updatedAt |-> 0]

(* exportMemory: the file written for a row handed over by the Facade, at   *)
(* memories/<containerTag>/<YYYY-MM>/<DD>-<id>.json of its creation date    *)
GitHubSync_exportMemory_ByUpdate(memory) ==
    [path |-> <<memory.container_tag, Day(memory.updated_at), memory.id>>,
     json |-> "object",
     body |-> [id |-> memory.id,
               content |-> memory.content,
               containerTag |-> memory.container_tag,
               metadata |-> IF memory.metadata.type = "string"
                            THEN JSON_parse(memory.metadata.text)
                            ELSE memory.metadata,
               createdAt |-> memory.created_at,
               updatedAt |-> memory.updated_at]]

GitHubSync_exportMemory(memory) ==
    [path |-> <<memory.container_tag, Day(memory.created_at), memory.id>>,
     json |-> "object",
     body |-> [id |-> memory.id,
               content |-> memory.content,
               containerTag |-> memory.container_tag,
               metadata |-> IF memory.metadata.type = "string"
                            THEN JSON_parse(memory.metadata.text)
                            ELSE memory.metadata,
               createdAt |-> memory.created_at,
               updatedAt |-> memory.updated_at]]

GitHubSync_exportMemories(memories) ==
    {GitHubSync_exportMemory(m) : m \in memories}

(* importMemories lines 240-255, the try block for one file: JSON.parse    *)
(* throws on a text that is no JSON, and data.id throws on the value null  *)
GitHubSync_importThrows(f) == f.json # "object"

(* importMemories reads the *.json files below memories/ *)
ProfilesDir == "profiles"
UnderMemories(f) == f.path[1] # ProfilesDir

GitHubSync_importMemories_AllOrNothing(c, t) ==
    IF \E f \in c.wt : UnderMemories(f) /\ GitHubSync_importThrows(f) THEN {}
    ELSE {[path |-> f.path,
           id |-> f.body.id,
           content |-> f.body.content,
           container_tag |-> f.body.containerTag,
           metadata |-> JSON_stringify(IF f.body.metadata = JSNull
                                       THEN EmptyDoc ELSE f.body.metadata),
           created_at |-> f.body.createdAt,
           updated_at |-> f.body.updatedAt,
           sync_status |-> "synced",
           synced_at |-> t] : f \in {g \in c.wt : UnderMemories(g)}}

(* importMemories: one entry per *.json file of the working tree whose try *)
(* block runs through; the others are logged and skipped                   *)
GitHubSync_importMemories(c, t) ==
    {[path |-> f.path,
      id |-> f.body.id,
      content |-> f.body.content,
      container_tag |-> f.body.containerTag,
      metadata |-> JSON_stringify(IF f.body.metadata = JSNull
                                  THEN EmptyDoc ELSE f.body.metadata),
      created_at |-> f.body.createdAt,
      updated_at |-> f.body.updatedAt,
      sync_status |-> "synced",
      synced_at |-> t] :
        f \in {g \in c.wt : UnderMemories(g) /\ ~GitHubSync_importThrows(g)}}

(* ensureRepo.  `at` is the step the environment fails (an API call, the   *)
(* clone, the git config), or "none".  The outcome names what ensureRepo   *)
(* returned ("true", "false") or that it threw, the checkout, the engine   *)
(* and the remote it leaves, and whether the failing step was reached.     *)
FaultSteps == {"none", "owner", "check", "create", "clone", "config"}

Outcome(ret, c, e, r, used) ==
    [ret |-> ret, co |-> c, eng |-> e, remote |-> r, fault |-> used]

ClonedCheckout(r) ==
    [dir |-> "repo", wt |-> r.files, idx |-> r.files, head |-> r.files,
     base |-> r.files, ahead |-> FALSE, behind |-> FALSE]

(* cloneRepo: git clone refuses a destination that exists and is not empty *)
GitHubSync_cloneRepo(c, e, r, at) ==
    IF at = "clone" THEN Outcome("throw", c, e, r, TRUE)
    ELSE IF c.dir # "absent" THEN Outcome("throw", c, e, r, FALSE)
    ELSE IF at = "config" THEN Outcome("throw", ClonedCheckout(r), e, r, TRUE)
    ELSE Outcome("true", ClonedCheckout(r), e, r, FALSE)

(* ensureRepo without lines 28-33, the return on a checkout that exists *)
GitHubSync_ensureRepo_NoShortcut(c, e, a, r, at) ==
    LET tok == GitHubAuth_getToken(a)
        e1 == [e EXCEPT !.repoOwner = TRUE]
        repoExists == ~tok.threw /\ at # "check" /\ r.exists
        created == ~tok.threw /\ at # "create" /\ ~r.exists
        r1 == [exists |-> TRUE, files |-> {}]
    IN  IF ~e.repoOwner /\ tok.threw THEN Outcome("throw", c, e, r, FALSE)
        ELSE IF ~e.repoOwner /\ at = "owner" THEN Outcome("throw", c, e, r, TRUE)
        ELSE IF repoExists THEN GitHubSync_cloneRepo(c, e1, r, at)
        ELSE IF ~created
             THEN Outcome("false", c, e1, r, ~tok.threw /\ at \in {"check", "create"})
        ELSE GitHubSync_cloneRepo(c, e1, r1, at)

GitHubSync_ensureRepo(c, e, a, r, at) ==
    LET tok == GitHubAuth_getToken(a)
        e1 == [e EXCEPT !.repoOwner = TRUE]
        repoExists == ~tok.threw /\ at # "check" /\ r.exists
        created == ~tok.threw /\ at # "create" /\ ~r.exists
        r1 == [exists |-> TRUE, files |-> {}]
    IN  IF c.dir = "repo" THEN Outcome("true", c, e, r, FALSE)
        ELSE IF ~e.repoOwner /\ tok.threw THEN Outcome("throw", c, e, r, FALSE)
        ELSE IF ~e.repoOwner /\ at = "owner" THEN Outcome("throw", c, e, r, TRUE)
        ELSE IF repoExists THEN GitHubSync_cloneRepo(c, e1, r, at)
        ELSE IF ~created
             THEN Outcome("false", c, e1, r, ~tok.threw /\ at \in {"check", "create"})
        ELSE GitHubSync_cloneRepo(c, e1, r1, at)

(* git add of the exported paths: the index takes the working tree's files *)
GitHubSync_add(c, paths) ==
    [c EXCEPT !.idx = WriteFiles(@, {f \in c.wt : f.path \in paths})]

(* git commit: nothing to commit is no error *)
GitHubSync_commit(c) ==
    [c EXCEPT !.head = c.idx, !.ahead = @ \/ c.idx # c.head]

(* git push origin main is rejected when the remote branch has moved on *)
GitHubSync_pushAccepted(c, r) == c.dir = "repo" /\ r.exists /\ ~c.behind

(* git pull origin main.  base is origin/main as the checkout last saw it: *)
(* the merge writes the paths the remote changed since, fails on a path    *)
(* the working tree or the index holds differently from HEAD, and          *)
(* conflicts on a path both sides changed differently.                     *)
IncomingPaths(c, r) == {f.path : f \in r.files \ c.base}
LocalPaths(c) == {f.path : f \in c.head \ c.base}
DirtyPaths(c) == {f.path : f \in (c.wt \ c.head) \cup (c.idx \ c.head)}
ConflictPaths(c, r) ==
    {p \in IncomingPaths(c, r) \cap LocalPaths(c) :
        {f \in r.files : f.path = p} # {f \in c.head : f.path = p}}

GitHubSync_pullOutcome(c, r) ==
    IF c.dir # "repo" \/ ~r.exists THEN "error"
    ELSE IF ~c.behind THEN "ok"
    ELSE IF IncomingPaths(c, r) \cap DirtyPaths(c) # {} THEN "error"
    ELSE IF ConflictPaths(c, r) # {} THEN "conflict"
    ELSE "ok"

GitHubSync_pullMerge(c, r) ==
    IF ~c.behind THEN c
    ELSE LET incoming == {f \in r.files : f.path \in IncomingPaths(c, r)}
         IN [c EXCEPT !.wt = WriteFiles(@, incoming),
                      !.idx = WriteFiles(@, incoming),
                      !.head = WriteFiles(@, incoming),
                      !.base = r.files,
                      !.behind = FALSE]

----------------------------------------------------------------------------
(* Storage Facade: StorageClient.  Result envelopes and the sync call.     *)

(* what a call of the Facade hands to its caller: the fields of the object *)
(* it returned (an absent field is FALSE, 0 or ""), or that it threw       *)
Envelope(success, synced, imported, error, conflict) ==
    [kind |-> "returned", success |-> success, synced |-> synced,
     imported |-> imported, error |-> error, conflict |-> conflict,
     id |-> "", status |-> "", containerTag |-> "", rows |-> {},
     list |-> <<>>, token |-> ""]
NoResult == [Envelope(FALSE, 0, 0, "", FALSE) EXCEPT !.kind = "none"]
Thrown(error) == [Envelope(FALSE, 0, 0, error, FALSE) EXCEPT !.kind = "threw"]
Success(synced) == Envelope(TRUE, synced, 0, "", FALSE)
Imported(n) == Envelope(TRUE, 0, n, "", FALSE)
Failure(error) == Envelope(FALSE, 0, 0, error, FALSE)
PullFailure(error, conflict) == Envelope(FALSE, 0, 0, error, conflict)
Saved(id, containerTag) ==
    [Envelope(FALSE, 0, 0, "", FALSE) EXCEPT
        !.id = id, !.status = "saved", !.containerTag = containerTag]
Found(rows) == [Envelope(FALSE, 0, 0, "", FALSE) EXCEPT !.rows = rows]
Listed(list) == [Envelope(FALSE, 0, 0, "", FALSE) EXCEPT !.list = list]
Token(token) == [Envelope(FALSE, 0, 0, "", FALSE) EXCEPT !.token = token]

(* the call in flight: where it is suspended (pc), its locals (pending,   *)
(* files, result), and what has happened in it so far (pushed: the remote  *)
(* accepted the push; failed: the step that failed)                        *)
IdleCall ==
    [pc |-> "idle", op |-> "none", pending |-> {}, files |-> {},
     result |-> NoResult, pushed |-> FALSE, failed |-> "none", polls |-> 0]

NoReturn == [op |-> "none", result |-> NoResult, failed |-> "none"]
Return(c) == [op |-> c.op, result |-> c.result, failed |-> c.failed]

----------------------------------------------------------------------------
(* The state after installation: empty databases, no checkout, no remote   *)
(* repository, and one configuration of the credential sources per device. *)

AuthConfig(env, ghAvailable, gh, file) ==
    [env |-> env, ghAvailable |-> ghAvailable, gh |-> gh, file |-> file]

(* no source at all; the environment override; a helper that reports      *)
(* itself logged in and then fails to hand out a token                     *)
SyncAuthConfigs ==
    {AuthConfig(NoToken, FALSE, NoToken, NoToken),
     AuthConfig(EnvToken, FALSE, NoToken, NoToken),
     AuthConfig(NoToken, TRUE, NoToken, NoToken)}

Init ==
    /\ now = 0
    /\ db = [d \in Devices |-> EmptyStore]
    /\ co = [d \in Devices |-> AbsentCheckout]
    /\ remote = NoRemote
    /\ eng = [d \in Devices |-> NewEngine]
    /\ auth \in {a \in [Devices -> SyncAuthConfigs] : a["devB"] = a["devA"]}
    /\ call = [d \in Devices |-> IdleCall]
    /\ res = [d \in Devices |-> NoReturn]
    /\ faults = MaxFaults
    /\ ops = 0

Idle(d) == call[d].pc = "idle"

(* Date.now() moves on *)
Tick ==
    /\ now < MaxClock
    /\ now' = now + 1
    /\ UNCHANGED <<db, co, remote, eng, auth, call, res, faults, ops>>

(* A caller's turn: the caller awaits each call of the Facade, so no sync  *)
(* call of this device is in flight; and the model stops after MaxStoreOps *)
(* operations on the Local Store                                           *)
CallerTurn(d) == Idle(d) /\ ops < MaxStoreOps

(* StorageClient.addMemory line 25: customId || this.generateId('mem') *)
NoCustomId == ""
StorageClient_addMemory_id_Generated(customId, generated) == generated
StorageClient_addMemory_id(customId, generated) ==
    IF customId # NoCustomId THEN customId ELSE generated

(* StorageClient.addMemory: generateId draws 8 random bytes, an id the     *)
(* store does not hold; the INSERT of a customId that exists throws and    *)
(* changes nothing                                                         *)
AddMemory(d, customId, generated, content, containerTag, metadata) ==
    LET id == StorageClient_addMemory_id(customId, generated)
    IN /\ CallerTurn(d)
       /\ customId = NoCustomId => generated \notin ExistingIds(db[d])
       /\ IF Sqlite_canAdd(db[d], id)
          THEN /\ db' = [db EXCEPT ![d] =
                          Sqlite_addMemory(@, id, content, containerTag, metadata, now)]
               /\ res' = [res EXCEPT ![d] =
                           [op |-> "addMemory", result |-> Saved(id, containerTag),
                            failed |-> "none"]]
          ELSE /\ UNCHANGED db
               /\ res' = [res EXCEPT ![d] =
                           [op |-> "addMemory",
                            result |-> Thrown("UNIQUE constraint failed: memories.id"),
                            failed |-> "none"]]
       /\ ops' = ops + 1
       /\ UNCHANGED <<now, co, remote, eng, auth, call, faults>>

(* SqliteManager.updateMemory *)
UpdateMemory(d, id, content, metadata) ==
    /\ CallerTurn(d)
    /\ db' = [db EXCEPT ![d] = Sqlite_updateMemory(@, id, content, metadata, now)]
    /\ ops' = ops + 1
    /\ UNCHANGED <<now, co, remote, eng, auth, call, res, faults>>

(* deleteMemory unlinking the exported file of the record as well *)
StorageClient_deleteMemory_checkout_Unlink(c, id) ==
    [c EXCEPT !.wt = {f \in @ : f.path[3] # id}]

(* StorageClient.deleteMemory lines 77-78: this.db.deleteMemory and the    *)
(* result; the engine and its checkout are not touched                     *)
StorageClient_deleteMemory_checkout(c, id) == c

(* StorageClient.deleteMemory *)
DeleteMemory(d, id) ==
    /\ CallerTurn(d)
    /\ db' = [db EXCEPT ![d] = Sqlite_deleteMemory(@, id)]
    /\ co' = [co EXCEPT ![d] = StorageClient_deleteMemory_checkout(@, id)]
    /\ ops' = ops + 1
    /\ UNCHANGED <<now, remote, eng, auth, call, res, faults>>

(* SqliteManager.searchMemories, as StorageClient.search calls it *)
SearchMemories(d, query, containerTag, limit) ==
    /\ Idle(d)
    /\ \E rows \in Sqlite_searchMemories(db[d], query, containerTag, limit) :
          res' = [res EXCEPT ![d] = [op |-> "searchMemories", result |-> Found(rows), failed |-> "none"]]
    /\ UNCHANGED <<now, db, co, remote, eng, auth, call, faults, ops>>

----------------------------------------------------------------------------
(* StorageClient.syncToGitHub, one action per stretch between two awaits   *)

SetCall(d, c) == call' = [call EXCEPT ![d] = c]

(* the catch clauses of GitHubSync.syncToGitHub and pullFromGitHub *)
GitHubSync_syncToGitHub_rethrow(error) == Thrown(error)
GitHubSync_syncToGitHub_swallow(error) == Success(0)
GitHubSync_syncToGitHub_catch(error) == Failure(error)
GitHubSync_pullFromGitHub_swallow(error, conflict) == Envelope(TRUE, 0, 0, "", FALSE)
GitHubSync_pullFromGitHub_catch(error, conflict) == PullFailure(error, conflict)

Fail(c, step, error) ==
    [c EXCEPT !.pc = "ret", !.result = GitHubSync_syncToGitHub_catch(error),
              !.failed = step]
PullFail(c, step, error, conflict) ==
    [c EXCEPT !.pc = "ret", !.failed = step,
              !.result = GitHubSync_pullFromGitHub_catch(error, conflict)]

(* an environment failure uses up one of the failures still to come *)
MayFail(failing) ==
    /\ failing => faults > 0
    /\ faults' = IF failing THEN faults - 1 ELSE faults

(* line 90 left out: the engine is called whatever is pending *)
StorageClient_nothingPending_Never(pending) == FALSE

(* line 90: pending.length === 0 *)
StorageClient_nothingPending(pending) == pending = {}

(* lines 83-92: the authentication check, initSync, getPendingSync *)
SyncToGitHub(d) ==
    /\ Idle(d)
    /\ IF ~GitHubAuth_isAuthenticated(auth[d])
       THEN /\ res' = [res EXCEPT ![d] =
                        [op |-> "syncToGitHub", result |-> Failure("Not authenticated"),
                         failed |-> "none"]]
            /\ UNCHANGED <<eng, call>>
       ELSE LET pending == Sqlite_getPendingSync(db[d])
            IN /\ eng' = [eng EXCEPT ![d] = StorageClient_initSync(@)]
               /\ IF StorageClient_nothingPending(pending)
                  THEN /\ res' = [res EXCEPT ![d] =
                                   [op |-> "syncToGitHub", result |-> Success(0),
                                    failed |-> "none"]]
                       /\ UNCHANGED call
                  ELSE /\ SetCall(d, [IdleCall EXCEPT !.pc = "ensureRepo",
                                                      !.op = "syncToGitHub",
                                                      !.pending = pending])
                       /\ UNCHANGED res
    /\ UNCHANGED <<now, db, co, remote, auth, faults, ops>>

(* GitHubSync.syncToGitHub line 175: await this.ensureRepo(), whose result *)
(* is not looked at                                                        *)
Publish_ensureRepo(d) ==
    /\ call[d].pc = "ensureRepo" /\ call[d].op = "syncToGitHub"
    /\ \E at \in FaultSteps :
         LET o == GitHubSync_ensureRepo(co[d], eng[d], auth[d], remote, at)
         IN /\ MayFail(o.fault)
            /\ co' = [co EXCEPT ![d] = o.co]
            /\ eng' = [eng EXCEPT ![d] = o.eng]
            /\ remote' = o.remote
            /\ SetCall(d, IF o.ret = "throw"
                          THEN Fail(call[d], "ensureRepo", "ensureRepo failed")
                          ELSE [call[d] EXCEPT !.pc = "export"])
    /\ UNCHANGED <<now, db, auth, res, ops>>

(* profiles/user-preferences.json; the second component of a path is the   *)
(* day of a memory file and nothing here                                   *)
ProfilesPath == <<ProfilesDir, 0, "user-preferences">>

RECURSIVE FactsText(_)
FactsText(facts) ==
    IF facts = {} THEN <<>>
    ELSE LET f == CHOOSE x \in facts : TRUE
         IN <<f>> \o FactsText(facts \ {f})

(* exportProfiles: the file written for the profiles handed over *)
GitHubSync_exportProfiles(profiles) ==
    IF profiles.given
    THEN {[path |-> ProfilesPath, json |-> "object",
           body |-> [NoBody EXCEPT !.id = "user-preferences",
                                   !.content = FactsText(profiles.facts)]]}
    ELSE {}

(* syncToGitHub(memories, profiles = null) called without profiles *)
NoProfiles == [given |-> FALSE, facts |-> {}]

(* the Facade handing the profile facts of the store to the engine *)
StorageClient_profilesArgument_All(store) ==
    [given |-> TRUE, facts |-> {p.fact : p \in store.profiles}]

(* part_002 line 94: this.sync.syncToGitHub(pending), no second argument *)
StorageClient_profilesArgument(store) == NoProfiles

(* lines 178-188: exportMemories writes one file per row, creating the     *)
(* directories it needs; a file-system failure stops it at some row        *)
Publish_export(d) ==
    /\ call[d].pc = "export"
    /\ \E failAt \in {0} \cup {m.rowid : m \in call[d].pending} :
         LET written == GitHubSync_exportMemories(
                            {m \in call[d].pending : failAt = 0 \/ m.rowid < failAt})
                        \cup (IF failAt = 0
                              THEN GitHubSync_exportProfiles(
                                       StorageClient_profilesArgument(db[d]))
                              ELSE {})
         IN /\ MayFail(failAt # 0)
            /\ co' = [co EXCEPT ![d].wt = WriteFiles(@, written),
                                ![d].dir = IF @ = "absent" /\ written # {}
                                           THEN "plain" ELSE @]
            /\ SetCall(d, IF failAt # 0
                          THEN Fail(call[d], "export", "write failed")
                          ELSE [call[d] EXCEPT !.pc = "add",
                                               !.files = Paths(written)])
    /\ UNCHANGED <<now, db, remote, eng, auth, res, ops>>

(* lines 191-194: git add of every exported file *)
Publish_add(d) ==
    /\ call[d].pc = "add"
    /\ \E failing \in BOOLEAN :
         /\ MayFail(failing /\ co[d].dir = "repo")
         /\ IF failing \/ co[d].dir # "repo"
            THEN /\ SetCall(d, Fail(call[d], "add", "git add failed"))
                 /\ UNCHANGED co
            ELSE /\ co' = [co EXCEPT ![d] = GitHubSync_add(@, call[d].files)]
                 /\ SetCall(d, [call[d] EXCEPT !.pc = "commit"])
    /\ UNCHANGED <<now, db, remote, eng, auth, res, ops>>

(* lines 197-199: git commit *)
Publish_commit(d) ==
    /\ call[d].pc = "commit"
    /\ \E failing \in BOOLEAN :
         /\ MayFail(failing)
         /\ IF failing
            THEN /\ SetCall(d, Fail(call[d], "commit", "git commit failed"))
                 /\ UNCHANGED co
            ELSE /\ co' = [co EXCEPT ![d] = GitHubSync_commit(@)]
                 /\ SetCall(d, [call[d] EXCEPT !.pc = "push"])
    /\ UNCHANGED <<now, db, remote, eng, auth, res, ops>>

(* lines 202-204: git push origin main, then success *)
Publish_push(d) ==
    /\ call[d].pc = "push"
    /\ \E failing \in BOOLEAN :
         /\ MayFail(failing /\ GitHubSync_pushAccepted(co[d], remote))
         /\ IF failing \/ ~GitHubSync_pushAccepted(co[d], remote)
            THEN /\ SetCall(d, Fail(call[d], "push", "git push failed"))
                 /\ UNCHANGED <<co, remote>>
            ELSE /\ remote' = [remote EXCEPT !.files = co[d].head]
                 /\ co' = [e \in Devices |->
                            IF e = d
                            THEN [co[e] EXCEPT !.base = co[d].head, !.ahead = FALSE]
                            ELSE [co[e] EXCEPT !.behind =
                                    @ \/ (co[e].dir = "repo" /\ co[d].ahead)]]
                 /\ SetCall(d, [call[d] EXCEPT
                                  !.pc = "ret", !.pushed = TRUE,
                                  !.result = Success(Cardinality(call[d].pending))])
    /\ UNCHANGED <<now, db, eng, auth, res, ops>>

(* StorageClient.syncToGitHub lines 96-101: markSynced on success only *)
StorageClient_marks_Always(result) == TRUE
StorageClient_marks(result) == result.kind = "returned" /\ result.success
StorageClient_markedIds_All(pending) == Ids
StorageClient_markedIds(pending) == {m.id : m \in pending}

SyncToGitHub_return(d) ==
    /\ call[d].pc = "ret" /\ call[d].op = "syncToGitHub"
    /\ db' = [db EXCEPT ![d] =
                IF StorageClient_marks(call[d].result)
                THEN Sqlite_markSynced(@, StorageClient_markedIds(call[d].pending), now)
                ELSE @]
    /\ res' = [res EXCEPT ![d] = Return(call[d])]
    /\ SetCall(d, IdleCall)
    /\ UNCHANGED <<now, co, remote, eng, auth, faults, ops>>

----------------------------------------------------------------------------
(* StorageClient.syncFromGitHub *)

(* lines 105-109 *)
SyncFromGitHub(d) ==
    /\ Idle(d)
    /\ IF ~GitHubAuth_isAuthenticated(auth[d])
       THEN /\ res' = [res EXCEPT ![d] =
                        [op |-> "syncFromGitHub",
                         result |-> Failure("Not authenticated"), failed |-> "none"]]
            /\ UNCHANGED <<eng, call>>
       ELSE /\ eng' = [eng EXCEPT ![d] = StorageClient_initSync(@)]
            /\ SetCall(d, [IdleCall EXCEPT !.pc = "ensureRepo",
                                           !.op = "syncFromGitHub"])
            /\ UNCHANGED res
    /\ UNCHANGED <<now, db, co, remote, auth, faults, ops>>

(* GitHubSync.pullFromGitHub line 213 *)
Pull_ensureRepo(d) ==
    /\ call[d].pc = "ensureRepo" /\ call[d].op = "syncFromGitHub"
    /\ \E at \in FaultSteps :
         LET o == GitHubSync_ensureRepo(co[d], eng[d], auth[d], remote, at)
         IN /\ MayFail(o.fault)
            /\ co' = [co EXCEPT ![d] = o.co]
            /\ eng' = [eng EXCEPT ![d] = o.eng]
            /\ remote' = o.remote
            /\ SetCall(d, IF o.ret = "throw"
                          THEN PullFail(call[d], "ensureRepo", "ensureRepo failed", FALSE)
                          ELSE [call[d] EXCEPT !.pc = "pull"])
    /\ UNCHANGED <<now, db, auth, res, ops>>

(* line 214: git pull origin main *)
Pull_pull(d) ==
    /\ call[d].pc = "pull"
    /\ \E failing \in BOOLEAN :
         LET outcome == IF failing THEN "error"
                        ELSE GitHubSync_pullOutcome(co[d], remote)
         IN /\ MayFail(failing /\ co[d].dir = "repo")
            /\ IF outcome = "ok"
               THEN /\ co' = [co EXCEPT ![d] = GitHubSync_pullMerge(@, remote)]
                    /\ SetCall(d, [call[d] EXCEPT !.pc = "import",
                                                  !.result = Envelope(TRUE, 0, 0, "", FALSE)])
               ELSE /\ SetCall(d, PullFail(call[d], "pull", "git pull failed",
                                           outcome = "conflict"))
                    /\ UNCHANGED co
    /\ UNCHANGED <<now, db, remote, eng, auth, res, ops>>

(* the orders in which readdirSync may list a set of files *)
Orders(S) ==
    {o \in [1..Cardinality(S) -> S] :
        \A i, j \in 1..Cardinality(S) : o[i] = o[j] => i = j}

(* StorageClient.syncFromGitHub lines 121-129: one entry of the import     *)
(* loop; a record the store already holds is skipped                       *)
StorageClient_importOne_Overwrite(store, memory, t) ==
    IF Sqlite_getMemory(store, memory.id) = {}
    THEN Sqlite_addMemory(store, memory.id, memory.content, memory.container_tag,
                          JSON_parse(memory.metadata), t)
    ELSE Sqlite_updateMemory(store, memory.id, memory.content,
                             JSON_parse(memory.metadata), t)

StorageClient_importOne(store, memory, t) ==
    LET existing == Sqlite_getMemory(store, memory.id)
    IN IF existing = {}
       THEN Sqlite_addMemory(store, memory.id, memory.content, memory.container_tag,
                             JSON_parse(memory.metadata), t)
       ELSE store

(* lines 120-130: the import loop, entry by entry in the order             *)
(* importMemories listed them                                              *)
(* db.addMemory throws on an entry it cannot bind; nothing catches it *)
StorageClient_importThrows(store, memory) ==
    /\ Sqlite_getMemory(store, memory.id) = {}
    /\ ~Sqlite_bindable(memory.content)

RECURSIVE StorageClient_importLoop(_, _, _, _)
StorageClient_importLoop(store, memories, i, t) ==
    IF i > Len(memories) THEN store
    ELSE IF StorageClient_importThrows(store, memories[i]) THEN store
    ELSE StorageClient_importLoop(StorageClient_importOne(store, memories[i], t),
                                  memories, i + 1, t)

RECURSIVE StorageClient_importThrew(_, _, _, _)
StorageClient_importThrew(store, memories, i, t) ==
    IF i > Len(memories) THEN FALSE
    ELSE IF StorageClient_importThrows(store, memories[i]) THEN TRUE
    ELSE StorageClient_importThrew(StorageClient_importOne(store, memories[i], t),
                                   memories, i + 1, t)

(* lines 117-132: importMemories, the import loop, the result *)
SyncFromGitHub_import(d) ==
    /\ call[d].pc = "import"
    /\ \E memories \in Orders(GitHubSync_importMemories(co[d], now)) :
         LET store == StorageClient_importLoop(db[d], memories, 1, now)
             threw == StorageClient_importThrew(db[d], memories, 1, now)
         IN /\ db' = [db EXCEPT ![d] = store]
            /\ res' = [res EXCEPT ![d] =
                        [op |-> "syncFromGitHub",
                         result |-> IF threw THEN Thrown("addMemory failed")
                                    ELSE Imported(Len(memories)),
                         failed |-> "none"]]
    /\ SetCall(d, IdleCall)
    /\ UNCHANGED <<now, co, remote, eng, auth, faults, ops>>

(* lines 112-114: the pull's failure result is handed back *)
SyncFromGitHub_return(d) ==
    /\ call[d].pc = "ret" /\ call[d].op = "syncFromGitHub"
    /\ res' = [res EXCEPT ![d] = Return(call[d])]
    /\ SetCall(d, IdleCall)
    /\ UNCHANGED <<now, db, co, remote, eng, auth, faults, ops>>

----------------------------------------------------------------------------
(* One device, one Facade, calls made one after the other.                 *)

(* what the callers of this model write: each id with its project's tag,  *)
(* and the rewrites of a text, with and without new metadata               *)
NewMemories ==
    {<<"m1", <<"alpha">>, "tagA", EmptyDoc>>,
     <<"m2", <<"beta">>, "tagB", ManualDoc>>}
Rewrites == {<<<<"beta">>, JSNull>>, <<<<"alpha">>, ManualDoc>>}

(* the calls of addMemory: a memory under its id as customId, whatever     *)
(* generateId would have drawn, or under the id generateId draws           *)
AddCalls ==
    {<<m[1], g, m[2], m[3], m[4]>> : m \in NewMemories, g \in Ids}
        \cup {<<NoCustomId, m[1], m[2], m[3], m[4]>> : m \in NewMemories}

Next ==
    \/ Tick
    \/ \E a \in AddCalls : AddMemory("devA", a[1], a[2], a[3], a[4], a[5])
    \/ \E id \in Ids, w \in Rewrites : UpdateMemory("devA", id, w[1], w[2])
    \/ \E id \in Ids : DeleteMemory("devA", id)
    \/ SyncToGitHub("devA")
    \/ Publish_ensureRepo("devA")
    \/ Publish_export("devA")
    \/ Publish_add("devA")
    \/ Publish_commit("devA")
    \/ Publish_push("devA")
    \/ SyncToGitHub_return("devA")
    \/ SyncFromGitHub("devA")
    \/ Pull_ensureRepo("devA")
    \/ Pull_pull("devA")
    \/ SyncFromGitHub_import("devA")
    \/ SyncFromGitHub_return("devA")

Spec == Init /\ [][Next]_vars

----------------------------------------------------------------------------
(* Properties of the synchronisation, checked under Spec *)

Row(d, id) == db[d].rows[id]
Exists(d, id) == id \in ExistingIds(db[d])
IsPending(d, id) == Exists(d, id) /\ Row(d, id).sync_status = "pending"
IsSynced(d, id) == Exists(d, id) /\ Row(d, id).sync_status = "synced"
PendingIds(store) == {i \in ExistingIds(store) : store.rows[i].sync_status = "pending"}
SyncedIds(store) == {i \in ExistingIds(store) : store.rows[i].sync_status = "synced"}

(* C1: a record goes from pending to synced only in a syncToGitHub call    *)
(* whose publish cycle has returned success for a batch holding the record *)
(* after the remote accepted the push: the file exported for the record is *)
(* in the remote repository; it never does when the result is              *)
(* success:false.                                                          *)
C1_MarkAfterPublish ==
    [][\A d \in Devices, id \in Ids :
         (IsPending(d, id) /\ IsSynced(d, id)')
            => /\ call[d].op = "syncToGitHub"
               /\ call[d].pushed
               /\ call[d].result.kind = "returned" /\ call[d].result.success
               /\ \E m \in call[d].pending :
                    m.id = id /\ GitHubSync_exportMemory(m) \in remote.files]_vars

(* a record was synced by an earlier call; the last call failed at the    *)
(* push and its record is still pending                                    *)
C1_Witness ==
    \E d \in Devices :
        /\ res[d].op = "syncToGitHub" /\ res[d].failed = "push"
        /\ ~res[d].result.success
        /\ SyncedIds(db[d]) # {} /\ PendingIds(db[d]) # {}

(* C2: the step that ends a successful syncToGitHub turns exactly the      *)
(* records that were pending when the call began (the getPendingSync       *)
(* snapshot, whatever their tag) to synced, the synced count it returns is *)
(* their number, and no step of the call changes any other record.         *)
C2_MarksExactlyPending ==
    [][\A d \in Devices :
         call[d].op = "syncToGitHub" =>
            IF call'[d].op = "none" /\ call[d].result.success
            THEN LET snapshot == {m.id : m \in call[d].pending}
                 IN /\ snapshot = PendingIds(db[d])
                    /\ SyncedIds(db'[d]) \ SyncedIds(db[d]) = snapshot
                    /\ res'[d].result.synced = Cardinality(snapshot)
                    /\ ExistingIds(db'[d]) = ExistingIds(db[d])
                    /\ \A id \in ExistingIds(db[d]) \ snapshot :
                         db'[d].rows[id] = db[d].rows[id]
            ELSE db'[d].rows = db[d].rows]_vars

(* two pending records of two tags, both marked by one successful call *)
C2_Witness ==
    \E d \in Devices :
        /\ res[d].op = "syncToGitHub" /\ res[d].result.success
        /\ res[d].result.synced = 2
        /\ IsSynced(d, "m1") /\ IsSynced(d, "m2")
        /\ Row(d, "m1").container_tag # Row(d, "m2").container_tag

(* C3: once a step of the publish has failed, no step of the call changes  *)
(* the Local Store: the pending records stay pending, no syncedAt is set.  *)
C3_FailedPublishLeavesStore ==
    [][\A d \in Devices :
         (call[d].op = "syncToGitHub" /\ call[d].failed # "none")
            => /\ db'[d] = db[d]
               /\ call'[d].op = "none" => ~res'[d].result.success]_vars

(* two pending records after a publish whose push failed *)
C3_Witness ==
    \E d \in Devices :
        /\ res[d].op = "syncToGitHub" /\ res[d].failed = "push"
        /\ PendingIds(db[d]) = {"m1", "m2"}
        /\ \A id \in PendingIds(db[d]) : Row(d, id).synced_at = NULL

(* C4 as the specification states it: a record is synced exactly when its  *)
(* syncedAt is set.                                                        *)
C4_SyncedIffSyncedAt ==
    \A d \in Devices : \A id \in ExistingIds(db[d]) :
        (Row(d, id).sync_status = "synced") <=> (Row(d, id).synced_at # NULL)

(* C4, amended: a synced record has a syncedAt, the time of a markSynced   *)
(* that is not in the future; a record whose syncedAt is null is pending.  *)
(* The converse does not hold: updateMemory resets a published record to   *)
(* pending and keeps the syncedAt of its last publish.                     *)
C4_SyncedHasSyncedAt ==
    \A d \in Devices : \A id \in ExistingIds(db[d]) :
        /\ Row(d, id).sync_status = "synced"
              => (Row(d, id).synced_at # NULL /\ Row(d, id).synced_at <= now)
        /\ Row(d, id).synced_at = NULL => Row(d, id).sync_status = "pending"

(* a record published and then rewritten: pending, with a syncedAt *)
C4_Witness ==
    \E d \in Devices : \E id \in ExistingIds(db[d]) :
        /\ Row(d, id).sync_status = "pending"
        /\ Row(d, id).synced_at # NULL
        /\ Row(d, id).synced_at <= Row(d, id).updated_at

(* C5: updateMemory(id, content, metadata) on a stored record leaves it    *)
(* pending, so that getPendingSync lists it, sets its content (and its     *)
(* metadata when one is given), leaves its id, containerTag and createdAt  *)
(* and every other record alone; on an id the store does not hold it       *)
(* changes no record and creates none.                                     *)
C5_UpdateResetsToPending ==
    [][\A id \in Ids, w \in Rewrites :
         UpdateMemory("devA", id, w[1], w[2]) =>
            IF Exists("devA", id)
            THEN LET old == db["devA"].rows[id]
                     new == db'["devA"].rows[id]
                 IN /\ ExistingIds(db'["devA"]) = ExistingIds(db["devA"])
                    /\ new.sync_status = "pending"
                    /\ \E m \in Sqlite_getPendingSync(db'["devA"]) : m.id = id
                    /\ new.content = w[1]
                    /\ new.metadata = IF w[2] = JSNull THEN old.metadata
                                      ELSE JSON_stringify(w[2])
                    /\ new.id = old.id /\ new.rowid = old.rowid
                    /\ new.container_tag = old.container_tag
                    /\ new.created_at = old.created_at
                    /\ \A other \in ExistingIds(db["devA"]) \ {id} :
                         db'["devA"].rows[other] = db["devA"].rows[other]
            ELSE db'["devA"].rows = db["devA"].rows]_vars

(* a record that was synced has been rewritten: it is pending again, with  *)
(* the new text and the creation time and tag it had                       *)
C5_Witness ==
    /\ Exists("devA", "m1")
    /\ Row("devA", "m1").sync_status = "pending"
    /\ Row("devA", "m1").synced_at # NULL
    /\ Row("devA", "m1").content = <<"beta">>
    /\ Row("devA", "m1").container_tag = "tagA"
    /\ Row("devA", "m1").updated_at > Row("devA", "m1").created_at

EntriesOf(c, id) == {e \in GitHubSync_importMemories(c, now) : e.id = id}
(* the files of a checkout that an export of this record wrote *)
ExportsOf(c, m) ==
    {g \in c.wt : /\ g.body.id = m.id
                  /\ g.body.containerTag = m.container_tag
                  /\ g.body.createdAt = m.created_at}
ImportStep(d) == call[d].pc = "import" /\ call'[d].op = "none"
ExportStep(d) == call[d].pc = "export" /\ call'[d].pc = "add"

(* C7 as the specification states it: a record that syncFromGitHub brings  *)
(* into a store that lacks it has the content, containerTag and metadata   *)
(* of the exported file, and syncStatus synced.                            *)
C7_RoundTrip ==
    [][\A d \in Devices :
         ImportStep(d) =>
            \A id \in ExistingIds(db'[d]) \ ExistingIds(db[d]) :
               /\ \E f \in co[d].wt :
                    /\ f.body.id = id
                    /\ db'[d].rows[id].content = f.body.content
                    /\ db'[d].rows[id].container_tag = f.body.containerTag
                    /\ JSON_parse(db'[d].rows[id].metadata) = f.body.metadata
               /\ db'[d].rows[id].sync_status = "synced"]_vars

(* C8 as the specification states it: after a record that was exported     *)
(* before is exported again, its file is at the path of the earlier export *)
(* and importMemories lists exactly one entry of its id.                   *)
C8_ExportIdempotent ==
    [][\A d \in Devices :
         ExportStep(d) =>
            \A m \in call[d].pending :
               ExportsOf(co[d], m) # {} =>
                  /\ \A g \in ExportsOf(co[d], m) :
                        g.path = GitHubSync_exportMemory(m).path
                  /\ {g \in co'[d].wt : g.path = GitHubSync_exportMemory(m).path}
                        = {GitHubSync_exportMemory(m)}
                  /\ Cardinality(EntriesOf(co'[d], m.id)) = 1]_vars

(* C8, amended: after a record that was exported before (also by a publish *)
(* that failed, also rewritten by updateMemory since) is exported again,   *)
(* its file is at the path of the earlier export, holds the new export     *)
(* alone, and importMemories lists exactly one entry of that record and as *)
(* many entries of its id as before the export.  Files written for the id  *)
(* under another creation day or tag stay in the checkout.                 *)
C8_ExportOverwrites ==
    [][\A d \in Devices :
         ExportStep(d) =>
            \A m \in call[d].pending :
               ExportsOf(co[d], m) # {} =>
                  /\ \A g \in ExportsOf(co[d], m) :
                        g.path = GitHubSync_exportMemory(m).path
                  /\ {g \in co'[d].wt : g.path = GitHubSync_exportMemory(m).path}
                        = {GitHubSync_exportMemory(m)}
                  /\ ExportsOf(co'[d], m) = {GitHubSync_exportMemory(m)}
                  /\ Cardinality(EntriesOf(co'[d], m.id))
                        = Cardinality(EntriesOf(co[d], m.id))]_vars

(* a published record, rewritten on a later day, has been exported again:  *)
(* one file of it, with the new text                                       *)
C8_Witness ==
    \E d \in Devices :
        /\ call[d].pc = "add"
        /\ \E m \in call[d].pending :
              /\ m.synced_at # NULL
              /\ m.updated_at > m.created_at
              /\ GitHubSync_exportMemory(m) \in co[d].wt
              /\ Cardinality(EntriesOf(co[d], m.id)) = 1

NoCredential(a) == a.env = NoToken /\ ~a.ghAvailable /\ a.file = NoToken

(* C9: with no credential source (no override, no helper, no token file),  *)
(* syncToGitHub and syncFromGitHub return success:false with the error     *)
(* "Not authenticated" at once: no engine is constructed, the Local Store, *)
(* the checkout and the remote are left as they were.                      *)
C9_AuthShortCircuit ==
    [][\A d \in Devices :
         (NoCredential(auth[d]) /\ (SyncToGitHub(d) \/ SyncFromGitHub(d)))
            => /\ res'[d].result = Failure("Not authenticated")
               /\ call'[d] = IdleCall
               /\ ~eng'[d].constructed
               /\ db' = db /\ co' = co /\ remote' = remote]_vars

(* a store with a pending record, a sync refused for want of a credential *)
C9_Witness ==
    \E d \in Devices :
        /\ NoCredential(auth[d])
        /\ res[d].result = Failure("Not authenticated")
        /\ PendingIds(db[d]) # {}
        /\ eng[d] = NewEngine /\ co[d] = AbsentCheckout

(* C10: a failure of a step of the publish or of the pull (the token       *)
(* resolution, an API call, the clone, git add, commit, push, pull) never  *)
(* leaves the Facade as an exception: the call skips to its return, and    *)
(* what it returns is success:false with a non-empty error string.         *)
C10_SyncNeverThrows ==
    \A d \in Devices :
        /\ call[d].failed # "none"
              => /\ call[d].pc = "ret"
                 /\ call[d].result.kind = "returned"
                 /\ ~call[d].result.success /\ call[d].result.error # ""
        /\ res[d].op \in {"syncToGitHub", "syncFromGitHub"}
              => res[d].result.kind # "threw"
        /\ res[d].failed # "none"
              => /\ res[d].result.kind = "returned"
                 /\ ~res[d].result.success /\ res[d].result.error # ""

(* the helper reports a login but hands out no token: the token resolution *)
(* throws inside ensureRepo, and syncToGitHub has returned a failure with  *)
(* the record still pending                                                *)
C10_Witness ==
    \E d \in Devices :
        /\ auth[d].ghAvailable /\ GitHubAuth_getToken(auth[d]).threw
        /\ res[d].op = "syncToGitHub" /\ res[d].failed = "ensureRepo"
        /\ res[d].result.kind = "returned" /\ ~res[d].result.success
        /\ PendingIds(db[d]) # {}

----------------------------------------------------------------------------
(* Properties of the checkout and of the publish cycle *)

(* a step of a sync call in which ensureRepo ran and failed: one of its    *)
(* calls failed, or it threw                                               *)
EnsureRepoFailed(d) ==
    /\ call[d].pc = "ensureRepo"
    /\ call'[d].pc # "ensureRepo"
    /\ (faults' < faults \/ call'[d].failed = "ensureRepo")

(* C11 as the specification states it: an ensureRepo in which a step       *)
(* failed (owner lookup, existence check, creation, clone, git config)     *)
(* leaves no valid checkout behind, so that the next ensureRepo redoes the *)
(* transition instead of answering at once.                                *)
C11_FailedEnsureRepoLeavesAbsent ==
    [][\A d \in Devices : EnsureRepoFailed(d) => co'[d].dir # "repo"]_vars

(* C12 as the specification states it: in a publish whose ensureRepo did   *)
(* not bring the checkout to a clone of the repository, no later step      *)
(* writes a file into the checkout directory, stages, commits or pushes,   *)
(* and the call returns success:false.                                     *)
C12_NotReadyAbortsPublish ==
    [][\A d \in Devices :
         (call[d].op = "syncToGitHub" /\ co[d].dir # "repo"
            /\ call[d].pc \in {"export", "add", "commit", "push", "ret"})
            => /\ co'[d] = co[d]
               /\ remote' = remote
               /\ call'[d].op = "none" => ~res'[d].result.success]_vars

(* The caller keeps invoking syncToGitHub, and every awaited step of a     *)
(* sync call comes back: the next stretch of the call runs.                *)
SyncSteps(d) ==
    \/ Publish_ensureRepo(d) \/ Publish_export(d) \/ Publish_add(d)
    \/ Publish_commit(d) \/ Publish_push(d) \/ SyncToGitHub_return(d)
    \/ Pull_ensureRepo(d) \/ Pull_pull(d)
    \/ SyncFromGitHub_import(d) \/ SyncFromGitHub_return(d)

FairSpec ==
    /\ Spec
    /\ SF_vars(SyncToGitHub("devA"))
    /\ WF_vars(SyncSteps("devA"))

ValidCredentials(a) == ~GitHubAuth_getToken(a).threw

(* C13 as the specification states it: with valid credentials, once the    *)
(* failures of the environment are over and while the caller keeps         *)
(* invoking syncToGitHub, every pending record is eventually marked synced *)
(* (or is gone), whatever failed before.                                   *)
C13_EventualBackup ==
    \A id \in Ids :
        (ValidCredentials(auth["devA"]) /\ IsPending("devA", id))
            ~> ~IsPending("devA", id)

----------------------------------------------------------------------------
(* A repository that holds files this program did not write: records of    *)
(* another installation, files that are no JSON, the JSON text null, an    *)
(* object without a content field.                                         *)

ForeignRecord ==
    [path |-> <<"tagB", 0, "m2">>, json |-> "object",
     body |-> [id |-> "m2", content |-> <<"beta">>, containerTag |-> "tagB",
               metadata |-> ManualDoc, createdAt |-> 0, updatedAt |-> 0]]
NoContentFile ==
    [path |-> <<"tagA", 0, "m1">>, json |-> "object",
     body |-> [id |-> "m1", content |-> Undefined, containerTag |-> "tagA",
               metadata |-> EmptyDoc, createdAt |-> 0, updatedAt |-> 0]]
UnparseableFile == [path |-> <<"tagA", 0, "broken">>, json |-> "unparseable", body |-> NoBody]
NullFile == [path |-> <<"tagB", 0, "null">>, json |-> "null", body |-> NoBody]
ForeignFiles == {ForeignRecord, NoContentFile, UnparseableFile, NullFile}

InitForeign ==
    /\ now = 0
    /\ db = [d \in Devices |-> EmptyStore]
    /\ co = [d \in Devices |-> AbsentCheckout]
    /\ \E tree \in SUBSET ForeignFiles : remote = [exists |-> TRUE, files |-> tree]
    /\ eng = [d \in Devices |-> NewEngine]
    /\ auth = [d \in Devices |-> AuthConfig(EnvToken, FALSE, NoToken, NoToken)]
    /\ call = [d \in Devices |-> IdleCall]
    /\ res = [d \in Devices |-> NoReturn]
    /\ faults = MaxFaults
    /\ ops = 0

NextForeign ==
    \/ \E a \in AddCalls : AddMemory("devA", a[1], a[2], a[3], a[4], a[5])
    \/ SyncFromGitHub("devA")
    \/ Pull_ensureRepo("devA")
    \/ Pull_pull("devA")
    \/ SyncFromGitHub_import("devA")
    \/ SyncFromGitHub_return("devA")

SpecForeign == InitForeign /\ [][NextForeign]_vars

(* a record file with every field the import needs *)
WellFormed(f) == f.json = "object" /\ f.body.content # Undefined

(* C14 as the specification states it: whatever corrupt files the checkout *)
(* holds, the import of syncFromGitHub inserts every well-formed record    *)
(* whose id the store lacks, and returns success.                          *)
C14_CorruptFileNeverBlocks ==
    [][\A d \in Devices :
         ImportStep(d) =>
            /\ \A f \in co[d].wt :
                  (WellFormed(f) /\ f.body.id \notin ExistingIds(db[d]))
                     => f.body.id \in ExistingIds(db'[d])
            /\ res'[d].result.kind = "returned"
            /\ res'[d].result.success]_vars

(* the files of a checkout JSON.parse accepts, and those it rejects *)
Parseable(c) == {f \in c.wt : f.json \in {"object", "null"}}
Unparseable(c) == {f \in c.wt : f.json = "unparseable"}
EntriesAt(c, f) == {e \in GitHubSync_importMemories(c, now) : e.path = f.path}
Carries(e, f) ==
    /\ e.id = f.body.id /\ e.content = f.body.content
    /\ e.container_tag = f.body.containerTag
    /\ e.created_at = f.body.createdAt /\ e.updated_at = f.body.updatedAt
    /\ e.sync_status = "synced" /\ e.synced_at # NULL

(* C15 as the specification states it: importMemories returns exactly one  *)
(* record per parseable file, with the file's fields and status synced,    *)
(* and none for an unparseable file.                                       *)
C15_OnePerParseableFile ==
    \A d \in Devices :
        /\ \A f \in Parseable(co[d]) :
              /\ Cardinality(EntriesAt(co[d], f)) = 1
              /\ \A e \in EntriesAt(co[d], f) : Carries(e, f)
        /\ \A f \in Unparseable(co[d]) : EntriesAt(co[d], f) = {}

(* C15, amended: importMemories returns exactly one record per file whose  *)
(* text parses to a JSON object, with the file's id, content,              *)
(* containerTag, createdAt, updatedAt, status synced and a syncedAt; it    *)
(* returns none for an unparseable file and none for a file holding the    *)
(* JSON text null, and as many records as there are object files.          *)
C15_OnePerObjectFile ==
    \A d \in Devices :
        /\ \A f \in co[d].wt :
              IF f.json = "object"
              THEN /\ Cardinality(EntriesAt(co[d], f)) = 1
                   /\ \A e \in EntriesAt(co[d], f) : Carries(e, f)
              ELSE EntriesAt(co[d], f) = {}
        /\ Cardinality(GitHubSync_importMemories(co[d], now))
              = Cardinality({f \in co[d].wt : f.json = "object"})

(* a cloned tree with a record, a file that is no JSON and a null file:    *)
(* the import has listed the record and brought it into the store          *)
C15_Witness ==
    \E d \in Devices :
        /\ {ForeignRecord, UnparseableFile, NullFile} \subseteq co[d].wt
        /\ NoContentFile \notin co[d].wt
        /\ Cardinality(GitHubSync_importMemories(co[d], now)) = 1
        /\ res[d].op = "syncFromGitHub" /\ res[d].result.success
        /\ Exists(d, "m2")

----------------------------------------------------------------------------
(* A repository another installation of the same account pushes to: its    *)
(* own record m2, and its version of m1 at the path this device uses.      *)

ForeignM1 ==
    [path |-> <<"tagA", 0, "m1">>, json |-> "object",
     body |-> [id |-> "m1", content |-> <<"beta">>, containerTag |-> "tagA",
               metadata |-> EmptyDoc, createdAt |-> 0, updatedAt |-> 0]]
ForeignWrites == {ForeignRecord, ForeignM1}

(* git push of the other installation: the branch moves on, and every      *)
(* clone is behind it                                                      *)
ForeignPush(f) ==
    /\ remote.exists
    /\ f \notin remote.files
    /\ \A g \in remote.files : g.path # f.path
    /\ remote' = [remote EXCEPT !.files = WriteFile(@, f)]
    /\ co' = [d \in Devices |-> [co[d] EXCEPT !.behind = @ \/ co[d].dir = "repo"]]
    /\ UNCHANGED <<now, db, eng, auth, call, res, faults, ops>>

InitShared ==
    /\ Init
    /\ auth = [d \in Devices |-> AuthConfig(EnvToken, FALSE, NoToken, NoToken)]

NextShared ==
    \/ \E a \in AddCalls : AddMemory("devA", a[1], a[2], a[3], a[4], a[5])
    \/ \E f \in ForeignWrites : ForeignPush(f)
    \/ SyncToGitHub("devA")
    \/ Publish_ensureRepo("devA")
    \/ Publish_export("devA")
    \/ Publish_add("devA")
    \/ Publish_commit("devA")
    \/ Publish_push("devA")
    \/ SyncToGitHub_return("devA")
    \/ SyncFromGitHub("devA")
    \/ Pull_ensureRepo("devA")
    \/ Pull_pull("devA")
    \/ SyncFromGitHub_import("devA")
    \/ SyncFromGitHub_return("devA")

SpecShared == InitShared /\ [][NextShared]_vars

(* C16: once the pull cycle of a syncFromGitHub call has failed (ensureRepo *)
(* or git pull, conflict or not), the call imports nothing: it goes to its *)
(* return, no step of it changes the Local Store, and it returns the       *)
(* pull's result, success:false with the conflict flag and the error.      *)
C16_FailedPullImportsNothing ==
    [][\A d \in Devices :
         (call[d].op = "syncFromGitHub" /\ call[d].failed # "none")
            => /\ call[d].pc = "ret"
               /\ db'[d] = db[d]
               /\ call'[d].op = "none"
                     => /\ res'[d].result = call[d].result
                        /\ res'[d].result.kind = "returned"
                        /\ ~res'[d].result.success
                        /\ res'[d].result.error # ""]_vars

(* a pull that met a conflict: the call has returned conflict:true, the    *)
(* remote holds a record the store was not given                           *)
C16_Witness ==
    \E d \in Devices :
        /\ res[d].op = "syncFromGitHub" /\ res[d].failed = "pull"
        /\ ~res[d].result.success /\ res[d].result.conflict
        /\ ForeignRecord \in remote.files
        /\ ~Exists(d, "m2")

----------------------------------------------------------------------------
(* Properties of the Local Store *)

(* what addMemory leaves alone: checkout, remote, engine, credentials, the *)
(* sync call, the failures still to come                                   *)
LocalOnly ==
    /\ co' = co /\ remote' = remote /\ eng' = eng /\ auth' = auth
    /\ call' = call /\ faults' = faults

(* one new pending record under id, and {id, status:"saved", containerTag} *)
StoredOne(d, id, containerTag) ==
    /\ id \notin ExistingIds(db[d])
    /\ ExistingIds(db'[d]) = ExistingIds(db[d]) \cup {id}
    /\ \A other \in ExistingIds(db[d]) : db'[d].rows[other] = db[d].rows[other]
    /\ db'[d].rows[id].sync_status = "pending"
    /\ db'[d].rows[id].container_tag = containerTag
    /\ Sqlite_getPendingSync(db'[d]) # {}
    /\ res'[d].result.kind = "returned"
    /\ res'[d].result.id = id
    /\ res'[d].result.status = "saved"
    /\ res'[d].result.containerTag = containerTag

CalledId(a) == IF a[1] # NoCustomId THEN a[1] ELSE a[2]

(* C17 as the specification states it: every addMemory of the Facade is    *)
(* local-only, stores exactly one new pending record and returns           *)
(* {id, status:"saved", containerTag}, id being the customId when one is   *)
(* supplied and the generated id otherwise.                                *)
C17_AddMemoryStoresOne ==
    [][\A a \in AddCalls :
         AddMemory("devA", a[1], a[2], a[3], a[4], a[5])
            => (LocalOnly /\ StoredOne("devA", CalledId(a), a[4]))]_vars

(* C17, amended: every addMemory of the Facade is local-only, whatever the *)
(* credentials and the state of the checkout and the remote; when the      *)
(* store does not hold the id (the customId when one is supplied, the      *)
(* generated id otherwise) it stores exactly one new pending record and    *)
(* returns {id, status:"saved", containerTag}; when the store holds the    *)
(* customId already, it throws and stores nothing.                         *)
C17_AddMemoryLocalOnly ==
    [][\A a \in AddCalls :
         AddMemory("devA", a[1], a[2], a[3], a[4], a[5])
            => /\ LocalOnly
               /\ IF CalledId(a) \in ExistingIds(db["devA"])
                  THEN /\ a[1] # NoCustomId
                       /\ db'["devA"] = db["devA"]
                       /\ res'["devA"].result.kind = "threw"
                  ELSE StoredOne("devA", CalledId(a), a[4])]_vars

(* a device without any credential source has saved a memory under its    *)
(* customId: the record is pending, nothing of the engine exists           *)
C17_Witness ==
    /\ NoCredential(auth["devA"])
    /\ res["devA"].op = "addMemory"
    /\ res["devA"].result.status = "saved"
    /\ res["devA"].result.id = "m1"
    /\ IsPending("devA", "m1")
    /\ eng["devA"] = NewEngine /\ co["devA"] = AbsentCheckout

(* the rows are keyed by their id and no two of them share a rowid *)
UniqueIds(store) ==
    /\ \A i \in ExistingIds(store) : store.rows[i].id = i
    /\ \A i, j \in ExistingIds(store) :
          store.rows[i].rowid = store.rows[j].rowid => i = j

(* C18: addMemory of the Local Store with an id the store holds fails with *)
(* the constraint violation and leaves the record (every field) and the    *)
(* full-text index unchanged; with a fresh id it inserts a record that is  *)
(* pending, has synced_at null and created_at = updated_at; the store      *)
(* never holds two records with the same id.                               *)
C18_DuplicateIdRejected ==
    /\ [](\A d \in Devices : UniqueIds(db[d]))
    /\ [][\A a \in AddCalls :
            AddMemory("devA", a[1], a[2], a[3], a[4], a[5])
               => IF CalledId(a) \in ExistingIds(db["devA"])
                  THEN /\ db'["devA"].rows = db["devA"].rows
                       /\ db'["devA"].fts = db["devA"].fts
                       /\ res'["devA"].result.kind = "threw"
                  ELSE LET new == db'["devA"].rows[CalledId(a)]
                       IN /\ new.sync_status = "pending"
                          /\ new.synced_at = NULL
                          /\ new.created_at = new.updated_at
                          /\ new.created_at = now
                          /\ new.content = a[3]]_vars

(* an addMemory under the id of a record that exists was rejected, and the *)
(* record is still there                                                   *)
C18_Witness ==
    /\ res["devA"].op = "addMemory"
    /\ res["devA"].result.kind = "threw"
    /\ Exists("devA", "m1")
    /\ ops = 2

(* the index entries the records of a store call for: those of each        *)
(* record's current content and container tag, under its rowid             *)
IndexOf(store) ==
    UNION {FtsEntries(store.rows[i].rowid, store.rows[i].content,
                      store.rows[i].container_tag) : i \in ExistingIds(store)}

(* C19: after any sequence of successful addMemory, updateMemory,          *)
(* deleteMemory and markSynced the full-text index holds exactly the       *)
(* entries of the existing records, with their current content and         *)
(* container tag: none of a deleted record, none of a replaced content,    *)
(* none missing.                                                           *)
C19_IndexConsistent ==
    \A d \in Devices : db[d].fts = IndexOf(db[d])

----------------------------------------------------------------------------
(* Search: the store under addMemory, updateMemory, deleteMemory and       *)
(* searchMemories, with two records able to share a tag and a word         *)

MaxLimit == 2

SearchCorpus ==
    {<<"m1", <<"alpha">>, "tagA", EmptyDoc>>,
     <<"m2", <<"alpha">>, "tagA", EmptyDoc>>,
     <<"m2", <<"beta">>, "tagB", ManualDoc>>}

SearchQueries == {"alpha", "beta", "tagA"}

NextSearch ==
    \/ Tick
    \/ \E m \in SearchCorpus : AddMemory("devA", m[1], m[1], m[2], m[3], m[4])
    \/ \E id \in Ids, w \in Rewrites : UpdateMemory("devA", id, w[1], w[2])
    \/ \E id \in Ids : DeleteMemory("devA", id)
    \/ \E query \in SearchQueries, containerTag \in Tags \cup {NoTag}, limit \in 1..MaxLimit :
          SearchMemories("devA", query, containerTag, limit)

SpecSearch == InitShared /\ [][NextSearch]_vars

(* the records of a tag whose content holds the word *)
MatchingOfTag(store, query, tag) ==
    {i \in ExistingIds(store) :
        /\ store.rows[i].container_tag = tag
        /\ query \in Words(store.rows[i].content)}

(* C20: searchMemories(query, tag, limit) returns at most limit records,   *)
(* each of the tag and with content that matches the query; every          *)
(* matching record of the tag is returned when there are at most limit of  *)
(* them.                                                                   *)
C20_SearchScoping ==
    [][\A query \in SearchQueries, tag \in Tags, limit \in 1..MaxLimit :
         SearchMemories("devA", query, tag, limit)
            => LET found == res'["devA"].result.rows
                   matching == MatchingOfTag(db["devA"], query, tag)
               IN /\ Cardinality(found) <= limit
                  /\ \A r \in found : /\ r.container_tag = tag
                                      /\ query \in Words(r.content)
                  /\ Cardinality(matching) <= limit
                        => \A i \in matching : \E r \in found : r.id = i]_vars

----------------------------------------------------------------------------
(* Hybrid context: SqliteManager.getContextMemories *)

FirstN(seq, n) == SubSeq(seq, 1, IF Len(seq) < n THEN Len(seq) ELSE n)

SeqIds(seq) == {seq[k].id : k \in 1..Len(seq)}

(* SELECT ... WHERE container_tag = ? ORDER BY created_at DESC LIMIT n:    *)
(* rows of equal created_at come in whichever order                        *)
Sqlite_recent(store, containerTag, n) ==
    LET tagged == {i \in ExistingIds(store) : store.rows[i].container_tag = containerTag}
    IN {FirstN([k \in 1..Cardinality(tagged) |-> store.rows[o[k]]], n) :
          o \in {p \in Orders(tagged) :
                   \A i, j \in 1..Cardinality(tagged) :
                      i < j => store.rows[p[i]].created_at >= store.rows[p[j]].created_at}}

(* SELECT ... WHERE memories_fts MATCH ? AND m.container_tag = ? ORDER BY  *)
(* rank LIMIT n: the rank is not computed, the matches come in whichever   *)
(* order                                                                   *)
Sqlite_relevant(store, projectName, containerTag, n) ==
    LET matches == Sqlite_searchMatches(store, projectName, containerTag)
    IN {FirstN([k \in 1..Cardinality(matches) |-> store.rows[o[k]]], n) :
          o \in Orders(matches)}

(* lines 211-219: the recent rows, then the relevant rows whose id is not  *)
(* among them                                                              *)
Sqlite_combine(recent, relevant) ==
    LET Unseen(mem) == mem.id \notin SeqIds(recent)
    IN recent \o SelectSeq(relevant, Unseen)

(* each query given the whole limit, rounded up *)
Sqlite_halfBudget_Ceil(limit) == (limit + 1) \div 2

(* lines 193 and 208: Math.floor(limit / 2), the LIMIT of either query *)
Sqlite_halfBudget(limit) == limit \div 2

(* getContextMemories: the lists it may return, metadata parsed *)
Sqlite_getContextMemories(store, containerTag, projectName, limit) ==
    {LET combined == FirstN(Sqlite_combine(recent, relevant), limit)
     IN [k \in 1..Len(combined) |-> [combined[k] EXCEPT !.metadata = JSON_parse(@)]] :
        recent \in Sqlite_recent(store, containerTag, Sqlite_halfBudget(limit)),
        relevant \in Sqlite_relevant(store, projectName, containerTag,
                                     Sqlite_halfBudget(limit))}

GetContextMemories(d, containerTag, projectName, limit) ==
    /\ Idle(d)
    /\ \E list \in Sqlite_getContextMemories(db[d], containerTag, projectName, limit) :
          res' = [res EXCEPT ![d] = [op |-> "getContextMemories", result |-> Listed(list), failed |-> "none"]]
    /\ UNCHANGED <<now, db, co, remote, eng, auth, call, faults, ops>>

MaxContextLimit == 3

ContextCorpus ==
    {<<"m2", <<"beta">>, "tagA", EmptyDoc>>,
     <<"m3", <<"beta">>, "tagA", EmptyDoc>>,
     <<"m3", <<"alpha">>, "tagB", ManualDoc>>}

ContextHints == {"alpha", "beta", "tagA"}

(* the store holds nothing, or one record of an earlier session *)
InitContext ==
    /\ now = 0
    /\ co = [d \in Devices |-> AbsentCheckout]
    /\ remote = NoRemote
    /\ eng = [d \in Devices |-> NewEngine]
    /\ auth = [d \in Devices |-> AuthConfig(EnvToken, FALSE, NoToken, NoToken)]
    /\ call = [d \in Devices |-> IdleCall]
    /\ res = [d \in Devices |-> NoReturn]
    /\ faults = MaxFaults
    /\ ops = 0
    /\ \E first \in {EmptyStore,
                     Sqlite_addMemory(EmptyStore, "m1", <<"alpha">>, "tagA", EmptyDoc, 0)} :
          db = [d \in Devices |-> IF d = "devA" THEN first ELSE EmptyStore]

NextContext ==
    \/ Tick
    \/ \E m \in ContextCorpus : AddMemory("devA", m[1], m[1], m[2], m[3], m[4])
    \/ \E id \in {"m1", "m2", "m3"}, w \in Rewrites : UpdateMemory("devA", id, w[1], w[2])
    \/ \E containerTag \in Tags, projectName \in ContextHints, limit \in 1..MaxContextLimit :
          GetContextMemories("devA", containerTag, projectName, limit)

SpecContext == InitContext /\ [][NextContext]_vars

(* the first k of the list are the k most recent records of the tag,       *)
(* newest first                                                            *)
MostRecentFirst(store, tag, list, k) ==
    /\ \A i, j \in 1..k : i < j => list[i].created_at >= list[j].created_at
    /\ \A i \in 1..k : \A other \in ExistingIds(store) :
          (store.rows[other].container_tag = tag
             /\ \A j \in 1..k : list[j].id # other)
            => store.rows[other].created_at <= list[i].created_at

(* C21: getContextMemories(tag, hint, limit) returns at most limit records *)
(* of the tag, no id twice; first the most recent records of the tag,      *)
(* newest first, then full-text matches for the hint (records whose        *)
(* content matches it) that are not among the recent ones.                 *)
C21_HybridContextOrdering ==
    [][\A tag \in Tags, hint \in ContextHints, limit \in 1..MaxContextLimit :
         GetContextMemories("devA", tag, hint, limit)
            => LET list == res'["devA"].result.list
               IN /\ Len(list) <= limit
                  /\ \A i \in 1..Len(list) : list[i].container_tag = tag
                  /\ \A i, j \in 1..Len(list) : list[i].id = list[j].id => i = j
                  /\ \E k \in 0..Len(list) :
                        /\ MostRecentFirst(db["devA"], tag, list, k)
                        /\ \A i \in (k + 1)..Len(list) :
                              hint \in Words(list[i].content)]_vars

----------------------------------------------------------------------------
(* Credential Provider on its own: every configuration of the three        *)
(* sources, getToken and the device-authorization flow                     *)

(* ghAvailable is what `gh auth status` said when the provider was         *)
(* constructed, gh what `gh auth token` yields when asked                  *)
AllAuthConfigs ==
    {AuthConfig(env, ghAvailable, gh, file) :
        env \in {NoToken, EnvToken}, ghAvailable \in BOOLEAN,
        gh \in {NoToken, GhToken}, file \in {NoToken, FileToken}}

Unauthenticated == "No GitHub authentication found"

(* GitHubAuth.getToken *)
GetToken(d) ==
    /\ Idle(d)
    /\ LET tok == GitHubAuth_getToken(auth[d])
       IN res' = [res EXCEPT ![d] =
                    [op |-> "getToken",
                     result |-> IF tok.threw THEN Thrown(Unauthenticated)
                                ELSE Token(tok.token),
                     failed |-> "none"]]
    /\ UNCHANGED <<now, db, co, remote, eng, auth, call, faults, ops>>

(* pollForToken line 213: for (let i = 0; i < 120; i++) *)
MaxPolls == 120

(* what one request to /login/oauth/access_token may come to: a body with  *)
(* an access_token, a body with an error, a failed request, a body that is *)
(* no JSON text, no response at all (the request carries no timeout)      *)
PendingError == "authorization_pending"
RemoteErrors == {"access_denied", "slow_down"}
RequestErrors == {"ECONNRESET"}
PollResponses ==
    {[kind |-> "token", error |-> ""]}
        \cup {[kind |-> "error", error |-> e] : e \in RemoteErrors \cup {PendingError}}
        \cup {[kind |-> "reject", error |-> e] : e \in RequestErrors}
        \cup {[kind |-> "notJSON", error |-> ""], [kind |-> "silence", error |-> ""]}

(* startDeviceFlow line 228: pollForToken is entered, i = 0 *)
PollForToken(d) ==
    /\ Idle(d)
    /\ SetCall(d, [IdleCall EXCEPT !.pc = "poll", !.op = "pollForToken"])
    /\ UNCHANGED <<now, db, co, remote, eng, auth, res, faults, ops>>

(* lines 213-216 with poll (170-210): one request and what is made of its  *)
(* response.  A token resolves and is returned; authorization_pending      *)
(* resolves null and the loop sleeps and goes on; any other JSON body and  *)
(* a failed request reject, and the await throws.  A body that is no JSON  *)
(* makes JSON.parse throw inside the 'end' listener, outside the promise:  *)
(* the exception is uncaught and the promise never settles.  Without a     *)
(* response nothing settles either.                                        *)
Poll(d, response) ==
    /\ call[d].pc = "poll"
    /\ call[d].polls < MaxPolls
    /\ CASE response.kind = "token" ->
              SetCall(d, [call[d] EXCEPT !.polls = @ + 1, !.pc = "polled",
                                         !.result = Token(DeviceToken)])
         [] response.kind = "error" /\ response.error = PendingError ->
              SetCall(d, [call[d] EXCEPT !.polls = @ + 1])
         [] response.kind = "error" /\ response.error # PendingError ->
              SetCall(d, [call[d] EXCEPT !.polls = @ + 1, !.pc = "polled",
                                         !.result = Thrown(response.error)])
         [] response.kind = "reject" ->
              SetCall(d, [call[d] EXCEPT !.polls = @ + 1, !.pc = "polled",
                                         !.result = Thrown(response.error)])
         [] response.kind = "notJSON" ->
              SetCall(d, [call[d] EXCEPT !.polls = @ + 1, !.pc = "uncaught"])
         [] response.kind = "silence" ->
              SetCall(d, [call[d] EXCEPT !.polls = @ + 1, !.pc = "waiting"])
    /\ UNCHANGED <<now, db, co, remote, eng, auth, res, faults, ops>>

(* line 219: the loop is left after 120 polls *)
Poll_timeout(d) ==
    /\ call[d].pc = "poll"
    /\ call[d].polls >= MaxPolls
    /\ SetCall(d, [call[d] EXCEPT !.pc = "polled",
                                  !.result = Thrown("Device flow timed out")])
    /\ UNCHANGED <<now, db, co, remote, eng, auth, res, faults, ops>>

(* startDeviceFlow lines 228-230: the token is saved and returned, a       *)
(* failure of pollForToken goes to the caller                              *)
PollForToken_return(d) ==
    /\ call[d].pc = "polled"
    /\ auth' = [auth EXCEPT ![d] = GitHubAuth_startDeviceFlow(@, call[d].result)]
    /\ res' = [res EXCEPT ![d] = [op |-> "pollForToken", result |-> call[d].result, failed |-> "none"]]
    /\ SetCall(d, IdleCall)
    /\ UNCHANGED <<now, db, co, remote, eng, faults, ops>>

PollSteps(d) ==
    \/ \E response \in PollResponses : Poll(d, response)
    \/ Poll_timeout(d)
    \/ PollForToken_return(d)

InitAuth ==
    /\ now = 0
    /\ db = [d \in Devices |-> EmptyStore]
    /\ co = [d \in Devices |-> AbsentCheckout]
    /\ remote = NoRemote
    /\ eng = [d \in Devices |-> NewEngine]
    /\ auth \in {a \in [Devices -> AllAuthConfigs] : a["devB"] = a["devA"]}
    /\ call = [d \in Devices |-> IdleCall]
    /\ res = [d \in Devices |-> NoReturn]
    /\ faults = MaxFaults
    /\ ops = 0

NextAuth ==
    \/ GetToken("devA")
    \/ PollForToken("devA")
    \/ \E response \in PollResponses : Poll("devA", response)
    \/ Poll_timeout("devA")
    \/ PollForToken_return("devA")

SpecAuth == InitAuth /\ [][NextAuth]_vars

(* the event loop runs what can run: a settled request is handled, the     *)
(* loop goes on, a finished poll returns                                   *)
FairAuth == SpecAuth /\ WF_vars(PollSteps("devA"))

(* all three sources hold nothing that getToken can use *)
Exhausted(a) ==
    /\ a.env = NoToken
    /\ ~a.ghAvailable \/ a.gh = NoToken
    /\ a.file = NoToken

(* C22: getToken returns the override whenever it is set; the helper's     *)
(* token only when no override is set and the helper is present and its    *)
(* token command works; the token file's token only when no override is    *)
(* set and the helper is absent or fails; it fails as unauthenticated,     *)
(* with no token, exactly when all three sources are exhausted.            *)
C22_ResolutionOrder ==
    [][GetToken("devA")
         => LET a == auth["devA"]
                r == res'["devA"].result
            IN /\ r.kind \in {"returned", "threw"}
               /\ a.env # NoToken => (r.kind = "returned" /\ r.token = a.env)
               /\ (r.kind = "returned" /\ r.token = GhToken)
                     => (a.env = NoToken /\ a.ghAvailable /\ a.gh = GhToken)
               /\ (r.kind = "returned" /\ r.token = FileToken)
                     => /\ a.env = NoToken
                        /\ ~a.ghAvailable \/ a.gh = NoToken
                        /\ a.file = FileToken
               /\ r.kind = "threw" <=> Exhausted(a)
               /\ r.kind = "threw" => (r.error = Unauthenticated /\ r.token = NoToken)
               /\ r.kind = "returned" => r.token # NoToken]_vars

(* the helper reported itself logged in, its token command failed, and     *)
(* getToken handed out the token of the file                               *)
C22_Witness ==
    /\ res["devA"].op = "getToken"
    /\ res["devA"].result.token = FileToken
    /\ auth["devA"].ghAvailable /\ auth["devA"].gh = NoToken
    /\ auth["devA"].env = NoToken

----------------------------------------------------------------------------
(* Properties of ensureRepo *)

EnsureRepoStep(d) == Publish_ensureRepo(d) \/ Pull_ensureRepo(d)

(* C23: ensureRepo on a checkout that exists reports Ready at once: the    *)
(* checkout, the remote and the engine's owner are left as they are, no    *)
(* fallible step is taken and the call goes on; a checkout once cloned     *)
(* stays and a remote once created stays, so that any number of calls      *)
(* creates the remote and clones at most once.                             *)
C23_EnsureRepoIdempotent ==
    [][\A d \in Devices :
         /\ (EnsureRepoStep(d) /\ co[d].dir = "repo")
               => /\ co' = co /\ remote' = remote /\ eng' = eng
                  /\ faults' = faults
                  /\ call'[d].failed = "none"
                  /\ call'[d].pc \in {"export", "pull"}
         /\ co[d].dir = "repo" => co'[d].dir = "repo"
         /\ remote.exists => remote'.exists
         /\ (co'[d].dir = "repo" /\ co[d].dir # "repo")
               => (EnsureRepoStep(d) /\ co[d].dir = "absent")]_vars

(* a second sync call of a device whose first one succeeded has passed     *)
(* ensureRepo on the checkout the first one cloned                         *)
C23_Witness ==
    /\ res["devA"].op = "syncToGitHub" /\ res["devA"].result.success
    /\ res["devA"].result.synced > 0
    /\ call["devA"].pc \in {"export", "pull"}
    /\ co["devA"].dir = "repo"

----------------------------------------------------------------------------
(* Properties of the device-authorization poll *)

(* C24: the poll always terminates: a response with a token ends it with   *)
(* that token, authorization_pending lets it go on, any other response     *)
(* ends it with a failure, 120 pending polls end it with the timeout, and  *)
(* after its end no further poll is made; no more than 120 polls are made. *)
C24_PollTerminates ==
    /\ [](call["devA"].polls <= MaxPolls)
    /\ [][\A response \in PollResponses :
            Poll("devA", response)
               => /\ response.kind = "token"
                        => /\ call'["devA"].pc = "polled"
                           /\ call'["devA"].result = Token(DeviceToken)
                  /\ (response.kind = "error" /\ response.error = PendingError)
                        => call'["devA"].pc = "poll"
                  /\ (response.kind \in {"error", "reject", "notJSON"}
                         /\ response.error # PendingError)
                        => /\ call'["devA"].pc = "polled"
                           /\ call'["devA"].result.kind = "threw"]_vars
    /\ [][Poll_timeout("devA")
            => (call["devA"].polls = MaxPolls
                  /\ call'["devA"].result = Thrown("Device flow timed out"))]_vars
    /\ (call["devA"].op = "pollForToken") ~> (call["devA"].op = "none")

----------------------------------------------------------------------------
(* Properties of the Facade's sync calls *)

(* syncToGitHub has returned {success: true, synced: 0} and the publish    *)
(* cycle was not entered: nothing of checkout, remote and store changed    *)
ReturnedNothingToSync(d) ==
    /\ res'[d].op = "syncToGitHub"
    /\ res'[d].result = Success(0)
    /\ call'[d] = IdleCall
    /\ co' = co /\ remote' = remote /\ db' = db /\ faults' = faults

(* C25 as the specification states it: whenever there are no pending       *)
(* records, syncToGitHub returns {success: true, synced: 0} without        *)
(* ensureRepo, export, commit or push and without a change to the store.   *)
C25_NothingPendingReturnsZero ==
    [][\A d \in Devices :
         (SyncToGitHub(d) /\ Sqlite_getPendingSync(db[d]) = {})
            => ReturnedNothingToSync(d)]_vars

(* C25, amended: on an authenticated device, whenever there are no pending *)
(* records, syncToGitHub returns {success: true, synced: 0} without        *)
(* ensureRepo, export, commit or push and without a change to the store.   *)
C25_AuthenticatedNothingPending ==
    [][\A d \in Devices :
         (SyncToGitHub(d) /\ Sqlite_getPendingSync(db[d]) = {}
             /\ GitHubAuth_isAuthenticated(auth[d]))
            => ReturnedNothingToSync(d)]_vars

(* syncToGitHub found nothing pending in a store whose one record is       *)
(* synced already, and returned synced: 0                                  *)
C25_Witness ==
    /\ res["devA"].op = "syncToGitHub"
    /\ res["devA"].result = Success(0)
    /\ Idle("devA")
    /\ IsSynced("devA", "m1")

(* C26: over the life of a Facade, whatever syncToGitHub and               *)
(* syncFromGitHub calls are made, at most one engine is constructed, and   *)
(* none on a device whose sync calls are all turned away as not            *)
(* authenticated.                                                          *)
C26_EngineConstructedOnce ==
    \A d \in Devices :
        /\ eng[d].built <= 1
        /\ eng[d].constructed <=> eng[d].built = 1
        /\ ~GitHubAuth_isAuthenticated(auth[d]) => eng[d].built = 0

(* a syncFromGitHub has returned on a device that had published a record   *)
(* before: two sync calls, one engine                                      *)
C26_Witness ==
    /\ res["devA"].op = "syncFromGitHub"
    /\ res["devA"].result.success
    /\ \E id \in Ids : IsSynced("devA", id)
    /\ eng["devA"].built = 1

----------------------------------------------------------------------------
(* The Local Store on its own: addMemory, updateMemory, deleteMemory and   *)
(* markSynced in any order and with any ids                                *)

(* SqliteManager.markSynced *)
MarkSynced(d, ids) ==
    /\ CallerTurn(d)
    /\ db' = [db EXCEPT ![d] = Sqlite_markSynced(@, ids, now)]
    /\ ops' = ops + 1
    /\ UNCHANGED <<now, co, remote, eng, auth, call, res, faults>>

(* the store holds nothing, or one record of an earlier session *)
InitStore ==
    /\ now = 0
    /\ co = [d \in Devices |-> AbsentCheckout]
    /\ remote = NoRemote
    /\ eng = [d \in Devices |-> NewEngine]
    /\ auth = [d \in Devices |-> AuthConfig(EnvToken, FALSE, NoToken, NoToken)]
    /\ call = [d \in Devices |-> IdleCall]
    /\ res = [d \in Devices |-> NoReturn]
    /\ faults = MaxFaults
    /\ ops = 0
    /\ \E first \in {EmptyStore,
                     Sqlite_addMemory(EmptyStore, "m2", <<"beta">>, "tagB", ManualDoc, 0)} :
          db = [d \in Devices |-> IF d = "devA" THEN first ELSE EmptyStore]

NextStore ==
    \/ Tick
    \/ \E a \in AddCalls : AddMemory("devA", a[1], a[2], a[3], a[4], a[5])
    \/ \E id \in Ids, w \in Rewrites : UpdateMemory("devA", id, w[1], w[2])
    \/ \E id \in Ids : DeleteMemory("devA", id)
    \/ \E ids \in SUBSET Ids : MarkSynced("devA", ids)

SpecStore == InitStore /\ [][NextStore]_vars

(* C27: markSynced(ids) sets sync_status = synced and a synced_at that is  *)
(* not null on the existing records whose id is in ids and on no other;    *)
(* no other field of them changes, no record appears or disappears, and    *)
(* with unknown ids only nothing changes.                                  *)
C27_MarkSyncedFrame ==
    [][\A ids \in SUBSET Ids :
         MarkSynced("devA", ids)
            => LET old == db["devA"]
                   new == db'["devA"]
               IN /\ ExistingIds(new) = ExistingIds(old)
                  /\ \A i \in ExistingIds(old) :
                        IF i \in ids
                        THEN /\ new.rows[i].sync_status = "synced"
                             /\ new.rows[i].synced_at # NULL
                             /\ [new.rows[i] EXCEPT
                                   !.sync_status = old.rows[i].sync_status,
                                   !.synced_at = old.rows[i].synced_at] = old.rows[i]
                        ELSE new.rows[i] = old.rows[i]
                  /\ ids \cap ExistingIds(old) = {} => new = old]_vars

(* m1 was marked synced without any sync call, the record of the earlier   *)
(* session is still pending                                                *)
C27_Witness ==
    /\ IsSynced("devA", "m1")
    /\ IsPending("devA", "m2")
    /\ ~eng["devA"].constructed

(* listMemories: SELECT ... WHERE container_tag = ? ORDER BY created_at    *)
(* DESC LIMIT ?, metadata parsed                                           *)
Sqlite_listMemories(store, containerTag, limit) ==
    {[k \in 1..Len(list) |-> [list[k] EXCEPT !.metadata = JSON_parse(@)]] :
        list \in Sqlite_recent(store, containerTag, limit)}

(* no read of the store returns a record of this id *)
ReturnedByNone(store, id) ==
    /\ Sqlite_getMemory(store, id) = {}
    /\ \A m \in Sqlite_getPendingSync(store) : m.id # id
    /\ \A tag \in Tags, limit \in 1..MaxLimit :
          \A list \in Sqlite_listMemories(store, tag, limit) : id \notin SeqIds(list)
    /\ \A query \in SearchQueries, tag \in Tags \cup {NoTag}, limit \in 1..MaxLimit :
          \A rows \in Sqlite_searchMemories(store, query, tag, limit) :
             \A r \in rows : r.id # id

(* C28: deleteMemory of an id the store does not hold changes nothing;     *)
(* deleting again leaves what deleting once left; after deleteMemory(id)   *)
(* none of getMemory, listMemories, getPendingSync and searchMemories      *)
(* returns the record, and every other record is as it was.                *)
C28_DeleteIdempotent ==
    [][\A id \in Ids :
         DeleteMemory("devA", id)
            => LET old == db["devA"]
                   new == db'["devA"]
               IN /\ id \notin ExistingIds(old) => new = old
                  /\ Sqlite_deleteMemory(new, id) = new
                  /\ ReturnedByNone(new, id)
                  /\ ExistingIds(new) = ExistingIds(old) \ {id}
                  /\ \A other \in ExistingIds(new) : new.rows[other] = old.rows[other]
                  /\ res' = res]_vars

(* m1 was deleted (the index still holds words under a rowid no record     *)
(* has) and the record of the earlier session is there                     *)
C28_Witness ==
    /\ ~Exists("devA", "m1")
    /\ Exists("devA", "m2")
    /\ \E e \in db["devA"].fts :
          \A i \in ExistingIds(db["devA"]) : db["devA"].rows[i].rowid # e[1]

----------------------------------------------------------------------------
(* Profile facts next to the sync cycle *)

ProfileFacts == {<<"p1", "tagA", "prefers tabs", "static">>}

(* SqliteManager.addProfileFact *)
AddProfileFact(d, id, containerTag, fact, type) ==
    /\ CallerTurn(d)
    /\ db' = [db EXCEPT ![d] = Sqlite_addProfileFact(@, id, containerTag, fact, type, now)]
    /\ ops' = ops + 1
    /\ UNCHANGED <<now, co, remote, eng, auth, call, res, faults>>

(* SqliteManager.deleteProfileFact *)
DeleteProfileFact(d, id) ==
    /\ CallerTurn(d)
    /\ db' = [db EXCEPT ![d] = Sqlite_deleteProfileFact(@, id)]
    /\ ops' = ops + 1
    /\ UNCHANGED <<now, co, remote, eng, auth, call, res, faults>>

(* a profiles file another writer has put into the repository *)
ForeignProfilesFile ==
    [path |-> ProfilesPath, json |-> "object",
     body |-> [NoBody EXCEPT !.id = "user-preferences", !.content = <<"uses vim">>]]

(* the store holds no profile fact or one of an earlier session; there is  *)
(* no remote repository, or one that holds a profiles file                 *)
InitProfile ==
    /\ now = 0
    /\ co = [d \in Devices |-> AbsentCheckout]
    /\ eng = [d \in Devices |-> NewEngine]
    /\ auth = [d \in Devices |-> AuthConfig(EnvToken, FALSE, NoToken, NoToken)]
    /\ call = [d \in Devices |-> IdleCall]
    /\ res = [d \in Devices |-> NoReturn]
    /\ faults = MaxFaults
    /\ ops = 0
    /\ remote \in {NoRemote, [exists |-> TRUE, files |-> {ForeignProfilesFile}]}
    /\ \E first \in {EmptyStore,
                     Sqlite_addProfileFact(EmptyStore, "p1", "tagA", "prefers tabs", "static", 0)} :
          db = [d \in Devices |-> IF d = "devA" THEN first ELSE EmptyStore]

NextProfile ==
    \/ Next
    \/ \E p \in ProfileFacts : AddProfileFact("devA", p[1], p[2], p[3], p[4])
    \/ \E p \in ProfileFacts : DeleteProfileFact("devA", p[1])

SpecProfile == InitProfile /\ [][NextProfile]_vars

ProfileFilesOf(tree) == {f \in tree : ~UnderMemories(f)}

(* any step of a sync call of the Facade, from its entry to its return *)
SyncCallStep(d) == SyncToGitHub(d) \/ SyncFromGitHub(d) \/ SyncSteps(d)

----------------------------------------------------------------------------
(* Properties of the publish cycle against a remote that moves *)

(* another writer pushes while no call of the device is in flight *)
ForeignPushBetweenCalls(f) == Idle("devA") /\ ForeignPush(f)

NextBehind ==
    \/ \E a \in AddCalls : AddMemory("devA", a[1], a[2], a[3], a[4], a[5])
    \/ \E f \in ForeignWrites : ForeignPushBetweenCalls(f)
    \/ SyncToGitHub("devA")
    \/ SyncFromGitHub("devA")
    \/ SyncSteps("devA")

SpecBehind == InitShared /\ [][NextBehind]_vars

(* C30: the publish cycle merges the remote branch before it writes, so    *)
(* the checkout it exports into has seen what the remote holds, and the    *)
(* push of a device, another writer having pushed since its last pull, is  *)
(* accepted unless the environment fails it: such a device completes       *)
(* syncToGitHub.                                                           *)
C30_PublishPullsFirst ==
    [][\A d \in Devices :
         /\ (Publish_export(d) /\ co[d].dir = "repo")
               => (~co[d].behind /\ co[d].base = remote.files)
         /\ (Publish_push(d) /\ faults' = faults /\ co[d].dir = "repo" /\ remote.exists)
               => call'[d].pushed]_vars

----------------------------------------------------------------------------
(* Properties of the device-authorization flow *)

(* no override is set and the helper hands out no token *)
FileDecides(a) == a.env = NoToken /\ (~a.ghAvailable \/ a.gh = NoToken)

(* C31: the device flow writes the token file only when polling produced   *)
(* a token, and the token written is the one returned: a flow that ends    *)
(* in the timeout or a denial leaves the token file as it was; after a     *)
(* flow that returned a token, getToken with no override and no working    *)
(* helper returns that token and isAuthenticated is true.                  *)
C31_TokenSavedOnSuccessOnly ==
    [][LET d == "devA"
           r == call[d].result
       IN /\ auth' # auth
               => /\ PollForToken_return(d) /\ r.kind = "returned"
                  /\ auth'[d] = [auth[d] EXCEPT !.file = r.token]
                  /\ res'[d].result.token = auth'[d].file
          /\ (PollForToken_return(d) /\ r.kind = "threw") => auth' = auth
          /\ (PollForToken_return(d) /\ r.kind = "returned")
               => /\ auth'[d].file = r.token /\ r.token # NoToken
                  /\ res'[d].result = r
                  /\ GitHubAuth_isAuthenticated(auth'[d])
                  /\ FileDecides(auth'[d])
                        => GitHubAuth_getToken(auth'[d]) = [threw |-> FALSE, token |-> r.token]
          /\ (GetToken(d) /\ auth[d].file = DeviceToken /\ FileDecides(auth[d]))
               => res'[d].result = Token(DeviceToken)]_vars

(* a device flow over an older token file has returned its token, and      *)
(* getToken, the helper failing, has handed out the token of the flow      *)
C31_Witness ==
    /\ res["devA"].op = "getToken"
    /\ res["devA"].result = Token(DeviceToken)
    /\ auth["devA"].file = DeviceToken
    /\ auth["devA"].ghAvailable /\ FileDecides(auth["devA"])

(* a device flow has timed out and the token file is the one from before *)
C31_WitnessTimeout ==
    /\ res["devA"].op = "pollForToken"
    /\ res["devA"].result = Thrown("Device flow timed out")
    /\ auth["devA"].file = FileToken

----------------------------------------------------------------------------
(* The Local Store written while a syncToGitHub call is suspended: the     *)
(* database is a file every process of the device opens (the hooks and     *)
(* commands each construct their own StorageClient), and syncToGitHub      *)
(* awaits ensureRepo, git add, git commit and git push between its         *)
(* getPendingSync and its markSynced                                       *)

Suspended(d) == call[d].op = "syncToGitHub" /\ ~Idle(d)

(* SqliteManager.updateMemory, run at a suspension point of the call *)
UpdateMemory_suspended(d, id, content, metadata) ==
    /\ Suspended(d)
    /\ ops < MaxStoreOps
    /\ db' = [db EXCEPT ![d] = Sqlite_updateMemory(@, id, content, metadata, now)]
    /\ ops' = ops + 1
    /\ UNCHANGED <<now, co, remote, eng, auth, call, res, faults>>

(* StorageClient.addMemory of the summary hook (add-memory.js:76-85), run  *)
(* at a suspension point of the call: the session id is the customId       *)
AddMemory_suspended(d, customId, content, containerTag, metadata) ==
    /\ Suspended(d)
    /\ ops < MaxStoreOps
    /\ Sqlite_canAdd(db[d], StorageClient_addMemory_id(customId, customId))
    /\ db' = [db EXCEPT ![d] =
                Sqlite_addMemory(@, StorageClient_addMemory_id(customId, customId),
                                 content, containerTag, metadata, now)]
    /\ ops' = ops + 1
    /\ UNCHANGED <<now, co, remote, eng, auth, call, res, faults>>

NextSuspended ==
    \/ Tick
    \/ \E m \in NewMemories : AddMemory("devA", m[1], m[1], m[2], m[3], m[4])
    \/ \E id \in Ids, w \in Rewrites : UpdateMemory("devA", id, w[1], w[2])
    \/ \E m \in NewMemories : AddMemory_suspended("devA", m[1], m[2], m[3], m[4])
    \/ \E id \in Ids, w \in Rewrites : UpdateMemory_suspended("devA", id, w[1], w[2])
    \/ SyncToGitHub("devA")
    \/ Publish_ensureRepo("devA")
    \/ Publish_export("devA")
    \/ Publish_add("devA")
    \/ Publish_commit("devA")
    \/ Publish_push("devA")
    \/ SyncToGitHub_return("devA")

SpecSuspended == InitShared /\ [][NextSuspended]_vars

(* the file the record has in a tree, content and metadata as the record   *)
(* holds them now                                                          *)
CurrentIn(tree, row) ==
    \E f \in tree :
        /\ f.path = <<row.container_tag, Day(row.created_at), row.id>>
        /\ f.body.content = row.content
        /\ f.body.metadata = JSON_parse(row.metadata)

(* C32: published means current: every record whose sync_status is synced  *)
(* has a file in the pushed checkout whose content and metadata are the    *)
(* record's content and metadata, also when updateMemory runs at a         *)
(* suspension point of a syncToGitHub call in flight.                      *)
C32_PublishedMeansCurrent ==
    \A d \in Devices : \A id \in SyncedIds(db[d]) :
        /\ CurrentIn(co[d].head, Row(d, id))
        /\ CurrentIn(remote.files, Row(d, id))

(* the ids of the rows the call in flight got from getPendingSync *)
SnapshotIds(d) == {m.id : m \in call[d].pending}

----------------------------------------------------------------------------
(* Two devices of one account on one remote repository: each has its own   *)
(* Local Store and checkout, and the calls of the two are made one after   *)
(* the other                                                               *)

(* no call of another device is in flight *)
OthersIdle(d) == \A e \in Devices \ {d} : Idle(e)

(* what each device writes: generateId draws 8 random bytes and the hook  *)
(* names its record session_<Date.now()>, so the two devices never add     *)
(* the same id                                                             *)
DeviceMemories(d) == {m \in NewMemories : m[1] = (IF d = "devA" THEN "m1" ELSE "m2")}

(* the calls a device makes while no call of the other one is in flight *)
DeviceAddMemory(d, id, content, containerTag, metadata) ==
    OthersIdle(d) /\ AddMemory(d, id, id, content, containerTag, metadata)
DeviceSyncToGitHub(d) == OthersIdle(d) /\ SyncToGitHub(d)
DeviceSyncFromGitHub(d) == OthersIdle(d) /\ SyncFromGitHub(d)

NextDevices ==
    \/ Tick
    \/ \E d \in Devices : \E m \in DeviceMemories(d) :
          DeviceAddMemory(d, m[1], m[2], m[3], m[4])
    \/ \E d \in Devices : DeviceSyncToGitHub(d)
    \/ \E d \in Devices : DeviceSyncFromGitHub(d)
    \/ \E d \in Devices : Publish_ensureRepo(d)
    \/ \E d \in Devices : Publish_export(d)
    \/ \E d \in Devices : Publish_add(d)
    \/ \E d \in Devices : Publish_commit(d)
    \/ \E d \in Devices : Publish_push(d)
    \/ \E d \in Devices : SyncToGitHub_return(d)
    \/ \E d \in Devices : Pull_ensureRepo(d)
    \/ \E d \in Devices : Pull_pull(d)
    \/ \E d \in Devices : SyncFromGitHub_import(d)
    \/ \E d \in Devices : SyncFromGitHub_return(d)

SpecDevices == InitShared /\ [][NextDevices]_vars

(* the record files a tree holds for an id *)
RecordFiles(tree, id) == {f \in tree : UnderMemories(f) /\ f.path[3] = id}

(* C34: with two devices on one remote repository, after any sequence of   *)
(* addMemory, syncToGitHub and syncFromGitHub on either device the         *)
(* repository holds at most one record file per record id: a record        *)
(* imported on the second device and published from there is written to    *)
(* the path of the original file.                                          *)
C34_OneFilePerId ==
    \A id \in Ids : Cardinality(RecordFiles(remote.files, id)) <= 1

----------------------------------------------------------------------------
(* Properties of deleteMemory against the checkout *)

(* C35: deleteMemory removes a record from the Local Store only: checkout  *)
(* and remote are left as they are, and no step ever takes a file out of   *)
(* the working tree, the index, the commit or the remote; so a successful  *)
(* syncFromGitHub leaves the store with a record for every record file of  *)
(* the checkout, and a record that was published and then deleted is       *)
(* inserted again, pending.                                                *)
C35_DeleteIsLocalOnly ==
    [][\A d \in Devices :
         /\ (\E id \in Ids : DeleteMemory(d, id))
               => (co' = co /\ remote' = remote)
         /\ Paths(co[d].wt) \subseteq Paths(co'[d].wt)
         /\ Paths(co[d].idx) \subseteq Paths(co'[d].idx)
         /\ Paths(co[d].head) \subseteq Paths(co'[d].head)
         /\ Paths(remote.files) \subseteq Paths(remote'.files)
         /\ (ImportStep(d) /\ res'[d].result.kind = "returned")
               => \A f \in co[d].wt :
                     (UnderMemories(f) /\ ~GitHubSync_importThrows(f))
                        => /\ f.body.id \in ExistingIds(db'[d])
                           /\ f.body.id \notin ExistingIds(db[d])
                                 => /\ IsPending(d, f.body.id)'
                                    /\ db'[d].rows[f.body.id].created_at = now]_vars

(* m1 was added, published and deleted, two operations on the store, and   *)
(* syncFromGitHub has put it back: it is the one record of the store,      *)
(* pending and never synced, and its file is in the remote                 *)
C35_Witness ==
    /\ res["devA"].op = "syncFromGitHub"
    /\ res["devA"].result = Imported(1)
    /\ ops = 2
    /\ ExistingIds(db["devA"]) = {"m1"}
    /\ IsPending("devA", "m1") /\ Row("devA", "m1").synced_at = NULL
    /\ RecordFiles(remote.files, "m1") # {}

----------------------------------------------------------------------------
(* The Facade's authentication check over every configuration of the       *)
(* credential sources                                                      *)

NextGate ==
    \/ Tick
    \/ \E m \in NewMemories : AddMemory("devA", m[1], m[1], m[2], m[3], m[4])
    \/ GetToken("devA")
    \/ SyncToGitHub("devA")
    \/ Publish_ensureRepo("devA")
    \/ Publish_export("devA")
    \/ Publish_add("devA")
    \/ Publish_commit("devA")
    \/ Publish_push("devA")
    \/ SyncToGitHub_return("devA")

SpecGate == InitAuth /\ [][NextGate]_vars

NotAuthenticated == Failure("Not authenticated")

(* C36: isAuthenticated never under-reports: in every configuration of     *)
(* the three credential sources, if getToken succeeds then isAuthenticated *)
(* is true (if isAuthenticated is false, getToken fails), so syncToGitHub  *)
(* answers "Not authenticated" only where getToken would have failed.      *)
C36_NeverUnderReports ==
    /\ [](\A d \in Devices :
            /\ ~GitHubAuth_getToken(auth[d]).threw => GitHubAuth_isAuthenticated(auth[d])
            /\ ~GitHubAuth_isAuthenticated(auth[d]) => GitHubAuth_getToken(auth[d]).threw)
    /\ [][LET d == "devA"
          IN /\ (GetToken(d) /\ res'[d].result.kind = "returned")
                   => GitHubAuth_isAuthenticated(auth[d])
             /\ (SyncToGitHub(d) /\ res'[d].result = NotAuthenticated)
                   => GitHubAuth_getToken(auth[d]).threw]_vars

(* the helper is the one source that works, and syncToGitHub has gone      *)
(* past the authentication check and published                             *)
C36_Witness ==
    /\ auth["devA"] = AuthConfig(NoToken, TRUE, GhToken, NoToken)
    /\ res["devA"].op = "syncToGitHub"
    /\ res["devA"].result.success /\ res["devA"].result.synced > 0

----------------------------------------------------------------------------
(* Properties of the timestamps of a record *)

(* C37: the clock never going back, every record of every reachable state  *)
(* has created_at <= updated_at, and every record whose sync_status is     *)
(* synced has updated_at <= synced_at: a step that changes the content or  *)
(* the metadata of a record leaves it pending.                             *)
C37_TimestampOrder ==
    /\ [](\A d \in Devices : \A id \in ExistingIds(db[d]) :
            /\ Row(d, id).created_at <= Row(d, id).updated_at
            /\ IsSynced(d, id) => Row(d, id).updated_at <= Row(d, id).synced_at)
    /\ [][/\ now <= now'
          /\ \A d \in Devices : \A id \in ExistingIds(db[d]) \cap ExistingIds(db'[d]) :
                (\/ db'[d].rows[id].content # db[d].rows[id].content
                 \/ db'[d].rows[id].metadata # db[d].rows[id].metadata
                 \/ db'[d].rows[id].updated_at # db[d].rows[id].updated_at)
                   => IsPending(d, id)']_vars

(* a record created at one time, rewritten at a later one and published    *)
(* after that                                                              *)
C37_Witness ==
    /\ IsSynced("devA", "m1")
    /\ Row("devA", "m1").created_at < Row("devA", "m1").updated_at
    /\ Row("devA", "m1").updated_at <= Row("devA", "m1").synced_at

----------------------------------------------------------------------------
(* Properties of the budget of getContextMemories *)

(* the records of a tag *)
OfTag(store, tag) == {i \in ExistingIds(store) : store.rows[i].container_tag = tag}

(* C38: getContextMemories(tag, hint, limit) returns at most               *)
(* 2 * floor(limit / 2) records, at most floor(limit / 2) of them recent   *)
(* records not brought by the full-text query and at most floor(limit / 2) *)
(* of them full-text matches: for an odd limit fewer than limit records,   *)
(* also when the tag has more, and for limit = 1 none.                     *)
C38_HalfBudgets ==
    [][\A tag \in Tags, hint \in ContextHints, limit \in 1..MaxContextLimit :
         GetContextMemories("devA", tag, hint, limit)
            => LET list == res'["devA"].result.list
                   half == limit \div 2
               IN /\ Len(list) <= 2 * half
                  /\ limit % 2 = 1 => Len(list) < limit
                  /\ limit = 1 => list = <<>>
                  /\ \E k \in 0..half :
                        /\ k <= Len(list) /\ Len(list) - k <= half
                        /\ \A i \in 1..k : list[i].container_tag = tag
                        /\ \A i \in (k + 1)..Len(list) :
                              list[i].id \in Sqlite_searchMatches(db["devA"], hint, tag)]_vars

(* the store held m1 from the start and m2 and m3 were added under the     *)
(* same tag; getContextMemories has returned m2 and m3 and not the third   *)
(* record of the tag                                                       *)
C38_Witness ==
    /\ res["devA"].op = "getContextMemories"
    /\ SeqIds(res["devA"].result.list) = {"m2", "m3"}
    /\ OfTag(db["devA"], "tagA") = {"m1", "m2", "m3"}

====
